---- MODULE Spec2Model ----
(***************************************************************************)
(* A model of the nutritrack backend: the relational store (the tables the *)
(* handlers read and write), the Meal and Workout aggregators, and the     *)
(* goal routes.  A request is a process that moves from one awaited store  *)
(* call to the next; every store call may fail, as a rejected promise.     *)
(***************************************************************************)
EXTENDS Integers, Sequences, FiniteSets, TLC

\* ------------------------------------------------------------------ bounds
MaxMeals == 1          \* rows of Meals
MaxMealItems == 2      \* rows of Meal_Items
MaxQty == 1            \* largest quantity of a food item
MaxList == 2           \* longest foodItems / exercises list of a POST body
MaxWorkouts == 1       \* rows of Workouts
MaxExercises == 2      \* rows of Workout_Exercises
MaxDuration == 1       \* longest duration of an exercise, in minutes
MaxGoals == 11         \* rows of Goals
MaxProgress == 3       \* rows of Progress_Tracking
MaxTime == 4           \* last tick of the store's clock

\* The request slots: two requests may be in flight at once in the
\* concurrent specifications, one in the sequential ones.
Procs == {1, 2}
SeqProcs == {1}
\* The user ids requests authenticate as.
UserIds == {1, 2}

\* SQL NULL / JS null-or-undefined; every stored number is >= 0.
NULL == 0 - 1

\* ------------------------------------------------------------------ state
VARIABLES
    Meals,          \* table Meals, MealID = index (auto-increment)
    Meal_Items,     \* table Meal_Items, in insertion order
    Workouts,       \* table Workouts, WorkoutID = index (auto-increment)
    Workout_Exercises, \* table Workout_Exercises, in insertion order
    Goals,          \* table Goals, GoalID = index (auto-increment)
    Progress_Tracking, \* table Progress_Tracking, in insertion order
    now,            \* the store's clock (CURRENT_TIMESTAMP), a tick per statement
    Activity_Logs,  \* table Activity_Logs, in insertion order
    Users,          \* table Users, UserID = index (auto-increment)
    User_Profiles,  \* table User_Profiles, in insertion order
    User_Preferences, \* table User_Preferences, in insertion order
    tokens,         \* the tokens jwt.sign has handed to clients
    db,             \* the store module: its pool handle and the connections out
    req             \* per request: where it is and its local variables

vars ==
    <<Meals, Meal_Items, Workouts, Workout_Exercises, Goals, Progress_Tracking, now,
      Activity_Logs, Users, User_Profiles, User_Preferences, tokens, db, req>>

\* What the handlers of one resource leave alone.
account == <<Users, User_Profiles, User_Preferences, tokens>>
nonMeal == <<Workouts, Workout_Exercises, Goals, Progress_Tracking, now, account, db>>
nonWorkout == <<Meals, Meal_Items, Goals, Progress_Tracking, now, account, db>>
nonGoal == <<Meals, Meal_Items, Workouts, Workout_Exercises, account, db>>
nonAccount ==
    <<Meals, Meal_Items, Workouts, Workout_Exercises, Goals, Progress_Tracking, db>>

\* ------------------------------------------------------------ static data
\* Food_Items is only ever read by the handlers.
Food_Items ==
    << [Calories_Per_Serving |-> 4, Protein |-> 1, Carbohydrates |-> 0, Fat |-> 2],
       [Calories_Per_Serving |-> 7, Protein |-> 0, Carbohydrates |-> 3, Fat |-> 1] >>

\* food ids a request may name: 0 stands for a missing/falsy id, and
\* Len(Food_Items) + 1 for an id that is in no row.
FoodIdInputs == 0..(Len(Food_Items) + 1)
QtyInputs == 0..MaxQty

\* The foodItems arrays a POST /api/meals body may carry (absent and empty
\* behave alike: the handler tests foodItems && foodItems.length > 0).
\* Its entries: a missing food id, a zero quantity, an id in no row, and
\* valid entries of either food.
FoodItemInputs ==
    {[foodId |-> 0, quantity |-> 1], [foodId |-> 1, quantity |-> 0],
     [foodId |-> Len(Food_Items) + 1, quantity |-> 1],
     [foodId |-> 1, quantity |-> MaxQty], [foodId |-> 2, quantity |-> 1]}
FoodItemLists == UNION {[1..k -> FoodItemInputs] : k \in 0..MaxList}

\* Column defaults of a freshly inserted Meals row (the INSERT names no total).
MealDefaultTotal == 0

ZeroMealTotals ==
    [Total_Calories |-> 0, Total_Protein |-> 0, Total_Carbs |-> 0, Total_Fat |-> 0]

\* No pending line-item.
NoItem == [none |-> TRUE]

IdleReq ==
    [pc |-> "idle", op |-> "none", id |-> 0, user |-> 0, list |-> <<>>, n |-> 0,
     item |-> NoItem, value |-> 0, status |-> "none", row |-> NoItem, mark |-> 0,
     header |-> NoItem, decoded |-> NoItem, identity |-> NoItem, nextCalls |-> 0,
     body |-> NoItem,
     totals |-> ZeroMealTotals, this |-> ZeroMealTotals, err |-> "none", out |-> "none"]

\* ---------------------------------------------------------------- helpers
RECURSIVE SumOver(_, _, _, _)
\* SELECT SUM(col) FROM s WHERE key = val: NULL when no selected row has a
\* non-NULL value (SQL's SUM skips NULLs and is NULL over nothing).
SumOver(s, key, val, col) ==
    IF s = <<>> THEN NULL
    ELSE LET rest == SumOver(Tail(s), key, val, col)
             h == Head(s)
         IN  IF h[key] = val /\ h[col] # NULL
             THEN (IF rest = NULL THEN 0 ELSE rest) + h[col]
             ELSE rest

\* COALESCE left out: the aggregate's NULL goes through.
COALESCE_LeftOut(x, d) == x

\* COALESCE(x, d)
COALESCE(x, d) == IF x = NULL THEN d ELSE x

\* MealTotalsQuery with a copied line left unedited: the fat total sums the
\* protein column.
MealTotalsQuery_FatFromProtein(mealId) ==
    [Total_Calories |-> COALESCE(SumOver(Meal_Items, "MealID", mealId, "Calories"), 0),
     Total_Protein |-> COALESCE(SumOver(Meal_Items, "MealID", mealId, "Protein"), 0),
     Total_Carbs |-> COALESCE(SumOver(Meal_Items, "MealID", mealId, "Carbohydrates"), 0),
     Total_Fat |-> COALESCE(SumOver(Meal_Items, "MealID", mealId, "Protein"), 0)]

\* The fallback's SELECT of Meal.updateTotals and of POST /api/meals.
MealTotalsQuery(mealId) ==
    [Total_Calories |-> COALESCE(SumOver(Meal_Items, "MealID", mealId, "Calories"), 0),
     Total_Protein |-> COALESCE(SumOver(Meal_Items, "MealID", mealId, "Protein"), 0),
     Total_Carbs |-> COALESCE(SumOver(Meal_Items, "MealID", mealId, "Carbohydrates"), 0),
     Total_Fat |-> COALESCE(SumOver(Meal_Items, "MealID", mealId, "Fat"), 0)]

MealTotalsOf(row) ==
    [Total_Calories |-> row.Total_Calories, Total_Protein |-> row.Total_Protein,
     Total_Carbs |-> row.Total_Carbs, Total_Fat |-> row.Total_Fat]

\* An UPDATE that adds to the stored totals instead of replacing them.
SetMealTotals_Add(mealId, t) ==
    [Meals EXCEPT ![mealId] =
        [@ EXCEPT !.Total_Calories = @ + t.Total_Calories,
                  !.Total_Protein = @ + t.Total_Protein,
                  !.Total_Carbs = @ + t.Total_Carbs, !.Total_Fat = @ + t.Total_Fat]]

\* UPDATE Meals SET Total_... = ? WHERE MealID = ?
SetMealTotals(mealId, t) ==
    [Meals EXCEPT ![mealId] =
        [@ EXCEPT !.Total_Calories = t.Total_Calories, !.Total_Protein = t.Total_Protein,
                  !.Total_Carbs = t.Total_Carbs, !.Total_Fat = t.Total_Fat]]

\* INSERT INTO Meals (UserID, ...): the totals take their column defaults.
NewMealRow(userId) ==
    [UserID |-> userId, Total_Calories |-> MealDefaultTotal,
     Total_Protein |-> MealDefaultTotal, Total_Carbs |-> MealDefaultTotal,
     Total_Fat |-> MealDefaultTotal]

\* The Meal_Items row both insert sites build from a Food_Items row.
NewMealItem(mealId, foodId, quantity) ==
    LET food == Food_Items[foodId]
    IN  [MealID |-> mealId, FoodID |-> foodId, Quantity |-> quantity,
         Calories |-> food.Calories_Per_Serving * quantity,
         Protein |-> food.Protein * quantity,
         Carbohydrates |-> food.Carbohydrates * quantity,
         Fat |-> food.Fat * quantity]

FoodFound(foodId) == foodId \in 1..Len(Food_Items)

\* The items of a meal, as indices into Meal_Items.
ItemsOf(mealId) == {i \in 1..Len(Meal_Items) : Meal_Items[i].MealID = mealId}

\* The sum of one contribution column over the items of idx.
ItemSum(idx, col) ==
    LET f[S \in SUBSET idx] ==
            IF S = {} THEN 0
            ELSE LET i == CHOOSE j \in S : TRUE
                 IN  Meal_Items[i][col] + f[S \ {i}]
    IN  f[idx]

\* The four sums over the items of idx.
MealItemSums(idx) ==
    [Total_Calories |-> ItemSum(idx, "Calories"),
     Total_Protein |-> ItemSum(idx, "Protein"),
     Total_Carbs |-> ItemSum(idx, "Carbohydrates"),
     Total_Fat |-> ItemSum(idx, "Fat")]

\* The stored routine UpdateMealTotals(mealId): the store-side reduction of
\* the items into the parent row, run as one statement.
UpdateMealTotalsRoutine(mealId) == SetMealTotals(mealId, MealItemSums(ItemsOf(mealId)))

\* A catch that logs the error and goes on to return true.
Throw_Swallowed(p, what) ==
    req' = [req EXCEPT ![p].pc = "done", ![p].err = what, ![p].out = "ok"]

\* A model method's outer catch: the error a store call rejected with
\* (named by the call, what) is logged and thrown on to the caller.
Throw(p, what) == req' = [req EXCEPT ![p].pc = "done", ![p].err = what, ![p].out = "throw"]

\* A route's response: res.status(code).json(...), and the handler ends.
Respond(p, code) == req' = [req EXCEPT ![p].pc = "done", ![p].out = code]

\* A catch that answers 201.
Respond500_Created(p, what) ==
    req' = [req EXCEPT ![p].pc = "done", ![p].err = what, ![p].out = "201"]

\* A catch that answers 400.
Respond500_BadRequest(p, what) ==
    req' = [req EXCEPT ![p].pc = "done", ![p].err = what, ![p].out = "400"]

\* A route's outer catch: the error is logged and answered with a 500.
Respond500(p, what) == req' = [req EXCEPT ![p].pc = "done", ![p].err = what, ![p].out = "500"]

\* ------------------------------------------------------------------- Init
\* The store module before it is loaded: `let pool;` and nothing running.
\* pool is the handle (0: unset), created counts the pools constructed,
\* load is the position of the initialization started at module load,
\* clients are the connections checked out (who borrowed, from which pool,
\* how often released) and calls counts the query calls started.
DbUnloaded == [pool |-> 0, created |-> 0, load |-> "unloaded", clients |-> {}, calls |-> 0]

\* The store module once module load and its initialization went through.
DbInit == [pool |-> 1, created |-> 1, load |-> "done", clients |-> {}, calls |-> 0]

\* bcrypt.hash(password, saltRounds): a digest of the password under a
\* salt drawn at the call.
Salts == {1, 2}
BcryptHash(password, salt) == [salt |-> salt, digest |-> <<salt, password>>]

\* The status of a freshly inserted Users row (the INSERT does not name it).
UserDefaultStatus == "Active"

\* INSERT INTO Users (Username, Email, Password_Hash, ...)
NewUserRow(username, email, hashedPassword, firstName) ==
    [Username |-> username, Email |-> email, Password_Hash |-> hashedPassword,
     First_Name |-> firstName, Account_Status |-> UserDefaultStatus, Last_Login |-> NULL]

\* INSERT INTO User_Profiles (UserID, Activity_Level, Fitness_Level)
NewProfileRow(userId) == [UserID |-> userId, Current_Weight |-> NULL]

\* INSERT INTO User_Preferences (UserID, Measurement_Units, ..., Theme_Preference, ...)
NewPreferencesRow(userId) == [UserID |-> userId, Theme_Preference |-> "Auto"]

\* The two registered users the requests authenticate as.
RegisteredUsers ==
    << NewUserRow("alice", "alice@x.io", BcryptHash("secret1", 1), "Alice"),
       NewUserRow("bob", "bob@x.io", BcryptHash("secret2", 1), "Bob") >>

AccountInit ==
    /\ Users = RegisteredUsers
    /\ User_Profiles = [u \in UserIds |-> NewProfileRow(u)]
    /\ User_Preferences = [u \in UserIds |-> NewPreferencesRow(u)]
    /\ tokens = {}

Init ==
    /\ Meals = <<>>
    /\ Meal_Items = <<>>
    /\ Workouts = <<>>
    /\ Workout_Exercises = <<>>
    /\ Goals = <<>>
    /\ Progress_Tracking = <<>>
    /\ now = 1
    /\ Activity_Logs = <<>>
    /\ AccountInit
    /\ db = DbInit
    /\ req = [p \in Procs |-> IdleReq]

\* ------------------------------------------------------------ Meal model
\* Meal.create: INSERT INTO Meals, then findById(insertId).
MealCreate(p) ==
    /\ req[p].pc = "idle"
    /\ Len(Meals) < MaxMeals
    /\ \E userId \in UserIds, ok \in BOOLEAN :
        IF ok
        THEN /\ Meals' = Append(Meals, NewMealRow(userId))
             /\ req' = [req EXCEPT ![p] = [IdleReq EXCEPT !.pc = "done", !.op = "Meal.create",
                            !.id = Len(Meals) + 1, !.user = userId, !.out = "ok"]]
        ELSE /\ UNCHANGED Meals
             /\ req' = [req EXCEPT ![p] = [IdleReq EXCEPT !.pc = "done", !.op = "Meal.create",
                            !.user = userId, !.err = "insert", !.out = "throw"]]
    /\ UNCHANGED <<Meal_Items, nonMeal, Activity_Logs>>

\* Meal.addFoodItem up to its call of updateTotals: the Food_Items lookup
\* (a table nothing writes) and the INSERT INTO Meal_Items.
MealAddFoodItem(p) ==
    /\ req[p].pc = "idle"
    /\ Len(Meal_Items) < MaxMealItems
    /\ \E mealId \in 1..Len(Meals), foodId \in FoodIdInputs, quantity \in QtyInputs,
          ok \in BOOLEAN :
        LET start == [IdleReq EXCEPT !.op = "Meal.addFoodItem", !.id = mealId,
                          !.user = Meals[mealId].UserID]
        IN  IF ok /\ FoodFound(foodId)
            THEN /\ Meal_Items' = Append(Meal_Items, NewMealItem(mealId, foodId, quantity))
                 /\ req' = [req EXCEPT ![p] = [start EXCEPT !.pc = "ut_call"]]
            ELSE /\ UNCHANGED Meal_Items
                 /\ req' = [req EXCEPT ![p] = [start EXCEPT !.pc = "done", !.out = "throw",
                                !.err = IF ok THEN "Food item not found" ELSE "insert"]]
    /\ UNCHANGED <<Meals, nonMeal, Activity_Logs>>

\* Meal.updateTotals, the stored-routine attempt: callProcedure either runs
\* the routine or throws, and the catch moves on to the manual calculation.
MealUpdateTotalsCall(p) ==
    /\ req[p].pc = "ut_call"
    /\ \E ok \in BOOLEAN :
        IF ok
        THEN /\ Meals' = UpdateMealTotalsRoutine(req[p].id)
             /\ req' = [req EXCEPT ![p].pc = "ut_refresh"]
        ELSE /\ UNCHANGED Meals
             /\ req' = [req EXCEPT ![p].pc = "ut_read", ![p].err = "procedure"]
    /\ UNCHANGED <<Meal_Items, nonMeal, Activity_Logs>>

\* Meal.updateTotals, fallback SELECT of the sums.
MealUpdateTotalsRead(p) ==
    /\ req[p].pc = "ut_read"
    /\ \E ok \in BOOLEAN :
        IF ok
        THEN req' = [req EXCEPT ![p].pc = "ut_write", ![p].totals = MealTotalsQuery(req[p].id)]
        ELSE Throw(p, "read")
    /\ UNCHANGED <<Meals, Meal_Items, nonMeal, Activity_Logs>>

\* Meal.updateTotals, fallback UPDATE of the parent row.
MealUpdateTotalsWrite(p) ==
    /\ req[p].pc = "ut_write"
    /\ \E ok \in BOOLEAN :
        IF ok
        THEN /\ Meals' = SetMealTotals(req[p].id, req[p].totals)
             /\ req' = [req EXCEPT ![p].pc = "ut_refresh"]
        ELSE /\ UNCHANGED Meals
             /\ Throw(p, "write")
    /\ UNCHANGED <<Meal_Items, nonMeal, Activity_Logs>>

\* Meal.updateTotals, the refresh: findById and Object.assign(this, ...).
MealUpdateTotalsRefresh(p) ==
    /\ req[p].pc = "ut_refresh"
    /\ \E ok \in BOOLEAN :
        IF ok
        THEN req' = [req EXCEPT ![p].pc = "done", ![p].out = "ok",
                                ![p].this = MealTotalsOf(Meals[req[p].id])]
        ELSE Throw(p, "refresh")
    /\ UNCHANGED <<Meals, Meal_Items, nonMeal, Activity_Logs>>

\* The caller has the result; the request slot is free again.
Return(p) ==
    /\ req[p].pc = "done"
    /\ req' = [req EXCEPT ![p] = IdleReq]
    /\ UNCHANGED <<Meals, Meal_Items, nonMeal, Activity_Logs>>

MealAddFoodItemSteps(p) ==
    \/ MealAddFoodItem(p)
    \/ MealUpdateTotalsCall(p)
    \/ MealUpdateTotalsRead(p)
    \/ MealUpdateTotalsWrite(p)
    \/ MealUpdateTotalsRefresh(p)

\* ------------------------------------------------------- POST /api/meals
\* Validation of the required fields, then INSERT INTO Meals.
PostMeal(p) ==
    /\ req[p].pc = "idle"
    /\ Len(Meals) < MaxMeals
    /\ \E userId \in UserIds, fieldsPresent \in BOOLEAN, foodItems \in FoodItemLists,
          ok \in BOOLEAN :
        LET start == [IdleReq EXCEPT !.op = "POST /api/meals", !.user = userId]
        IN  /\ Len(Meal_Items) + Len(foodItems) <= MaxMealItems
            /\ IF ~fieldsPresent
               THEN /\ UNCHANGED Meals
                    /\ req' = [req EXCEPT ![p] = [start EXCEPT !.pc = "done", !.out = "400"]]
               ELSE IF ~ok
               THEN /\ UNCHANGED Meals
                    /\ req' = [req EXCEPT ![p] = [start EXCEPT !.pc = "done", !.err = "insert",
                                   !.out = "500"]]
               ELSE /\ Meals' = Append(Meals, NewMealRow(userId))
                    /\ req' = [req EXCEPT ![p] = [start EXCEPT !.id = Len(Meals) + 1,
                                   !.list = foodItems,
                                   !.pc = IF Len(foodItems) > 0 THEN "pm_items" ELSE "pm_log"]]
    /\ UNCHANGED <<Meal_Items, nonMeal, Activity_Logs>>

\* One turn of the loop over foodItems: an invalid item is skipped, a food
\* that is in no row is skipped too, any other is inserted.
PostMealItem(p) ==
    /\ req[p].pc = "pm_items"
    /\ LET item == Head(req[p].list)
           rest == Tail(req[p].list)
           next == [req EXCEPT ![p].list = rest,
                               ![p].pc = IF rest = <<>> THEN "pm_call" ELSE "pm_items"]
       IN  IF item.foodId = 0 \/ item.quantity = 0 \/ item.quantity <= 0
           THEN /\ req' = next
                /\ UNCHANGED Meal_Items
           ELSE \E ok \in BOOLEAN :
                IF ~ok
                THEN /\ Respond500(p, "insert")
                     /\ UNCHANGED Meal_Items
                ELSE IF FoodFound(item.foodId)
                THEN /\ Meal_Items' = Append(Meal_Items,
                                          NewMealItem(req[p].id, item.foodId, item.quantity))
                     /\ req' = next
                ELSE /\ req' = next
                     /\ UNCHANGED Meal_Items
    /\ UNCHANGED <<Meals, nonMeal, Activity_Logs>>

\* The stored-routine attempt of the route.
PostMealCall(p) ==
    /\ req[p].pc = "pm_call"
    /\ \E ok \in BOOLEAN :
        IF ok
        THEN /\ Meals' = UpdateMealTotalsRoutine(req[p].id)
             /\ req' = [req EXCEPT ![p].pc = "pm_log"]
        ELSE /\ UNCHANGED Meals
             /\ req' = [req EXCEPT ![p].pc = "pm_read", ![p].err = "procedure"]
    /\ UNCHANGED <<Meal_Items, nonMeal, Activity_Logs>>

\* The route's fallback SELECT.
PostMealRead(p) ==
    /\ req[p].pc = "pm_read"
    /\ \E ok \in BOOLEAN :
        IF ok
        THEN req' = [req EXCEPT ![p].pc = "pm_write", ![p].totals = MealTotalsQuery(req[p].id)]
        ELSE Respond500(p, "read")
    /\ UNCHANGED <<Meals, Meal_Items, nonMeal, Activity_Logs>>

\* The route's fallback UPDATE.
PostMealWrite(p) ==
    /\ req[p].pc = "pm_write"
    /\ \E ok \in BOOLEAN :
        IF ok
        THEN /\ Meals' = SetMealTotals(req[p].id, req[p].totals)
             /\ req' = [req EXCEPT ![p].pc = "pm_log"]
        ELSE /\ UNCHANGED Meals
             /\ Respond500(p, "write")
    /\ UNCHANGED <<Meal_Items, nonMeal, Activity_Logs>>

\* The audit entry and the 201 response.
PostMealLog(p) ==
    /\ req[p].pc = "pm_log"
    /\ \E ok \in BOOLEAN :
        IF ok
        THEN /\ Activity_Logs' = Append(Activity_Logs,
                    [UserID |-> req[p].user, Activity_Type |-> "Meal_Log"])
             /\ Respond(p, "201")
        ELSE /\ UNCHANGED Activity_Logs
             /\ Respond500(p, "log")
    /\ UNCHANGED <<Meals, Meal_Items, nonMeal>>

PostMealSteps(p) ==
    \/ PostMeal(p)
    \/ PostMealItem(p)
    \/ PostMealCall(p)
    \/ PostMealRead(p)
    \/ PostMealWrite(p)
    \/ PostMealLog(p)

\* One request at a time, from the empty store.
MealSeqNext ==
    \E p \in SeqProcs :
        MealCreate(p) \/ MealAddFoodItemSteps(p) \/ PostMealSteps(p) \/ Return(p)

MealSeqSpec == Init /\ [][MealSeqNext]_vars

\* =============================================================== Workouts
\* Exercises and User_Profiles are only read by the workout handlers.
\* The second exercise has no Calories_Per_Minute.
Exercises == << [Calories_Per_Minute |-> 5], [Calories_Per_Minute |-> NULL] >>

\* User_Profiles.Current_Weight of each user (multiples of the 70 kg
\* baseline, so that weight / 70 is exact in integers).
Current_Weight(userId) == IF userId = 1 THEN 70 ELSE 140


\* The exercise data a request may carry (an entry of the exercises array
\* of a POST /api/workouts body, or the argument of Workout.addExercise,
\* which reads no caloriesBurned and is not called without an exerciseId):
\* one with no exerciseId, and entries with and without a duration, a
\* heart rate, a calorie rate and a client-side calorie figure.
ExerciseInputs ==
    {[exerciseId |-> 0, duration |-> 1, heartRateAvg |-> 90, caloriesBurned |-> NULL],
     [exerciseId |-> 2, duration |-> MaxDuration, heartRateAvg |-> NULL, caloriesBurned |-> NULL],
     [exerciseId |-> 1, duration |-> NULL, heartRateAvg |-> 90, caloriesBurned |-> 7],
     [exerciseId |-> 1, duration |-> 1, heartRateAvg |-> 120, caloriesBurned |-> NULL]}
ExerciseLists == UNION {[1..k -> ExerciseInputs] : k \in 0..MaxList}

\* A rational number in lowest terms; den = 0 stands for SQL NULL.
RECURSIVE GCD(_, _)
GCD(a, b) == IF b = 0 THEN a ELSE GCD(b, a % b)
Rat(n, d) == LET g == GCD(n, d) IN IF g = 0 THEN [num |-> 0, den |-> d] ELSE [num |-> n \div g, den |-> d \div g]
NullRat == [num |-> 0, den |-> 0]
ZeroRat == [num |-> 0, den |-> 1]

\* Column defaults of a freshly inserted Workouts row.
WorkoutDefaultTotal == 0
WorkoutDefaultAverage == ZeroRat

RECURSIVE CountOver_Rows(_, _, _, _)
\* COUNT(*) in place of COUNT(col): a row with no value counts as well.
CountOver_Rows(s, key, val, col) ==
    IF s = <<>> THEN 0
    ELSE (IF Head(s)[key] = val THEN 1 ELSE 0) + CountOver_Rows(Tail(s), key, val, col)

RECURSIVE CountOver(_, _, _, _)
\* SELECT COUNT(col) FROM s WHERE key = val: the rows with a non-NULL col.
CountOver(s, key, val, col) ==
    IF s = <<>> THEN 0
    ELSE (IF Head(s)[key] = val /\ Head(s)[col] # NULL THEN 1 ELSE 0)
         + CountOver(Tail(s), key, val, col)

RECURSIVE MaxOver_Min(_, _, _, _)
\* MIN in place of MAX.
MaxOver_Min(s, key, val, col) ==
    IF s = <<>> THEN NULL
    ELSE LET rest == MaxOver_Min(Tail(s), key, val, col)
             h == Head(s)
         IN  IF h[key] = val /\ h[col] # NULL /\ (rest = NULL \/ h[col] < rest)
             THEN h[col] ELSE rest

RECURSIVE MaxOver(_, _, _, _)
\* SELECT MAX(col) FROM s WHERE key = val: NULL over no non-NULL value.
MaxOver(s, key, val, col) ==
    IF s = <<>> THEN NULL
    ELSE LET rest == MaxOver(Tail(s), key, val, col)
             h == Head(s)
         IN  IF h[key] = val /\ h[col] # NULL /\ h[col] > rest THEN h[col] ELSE rest

\* SELECT AVG(col) FROM s WHERE key = val: SUM / COUNT over the non-NULL
\* values, NULL when there is none.
AvgOver(s, key, val, col) ==
    LET cnt == CountOver(s, key, val, col)
    IN  IF cnt = 0 THEN NullRat ELSE Rat(SumOver(s, key, val, col), cnt)

\* COALESCE(AVG(...), 0)
CoalesceAvg(x) == IF x.den = 0 THEN ZeroRat ELSE x

\* The fallback's SELECT of Workout.updateTotals and of POST /api/workouts.
WorkoutTotalsQuery(workoutId) ==
    [Total_Duration |->
        COALESCE(SumOver(Workout_Exercises, "WorkoutID", workoutId, "Duration"), 0),
     Total_Calories_Burned |->
        COALESCE(SumOver(Workout_Exercises, "WorkoutID", workoutId, "Calories_Burned"), 0),
     Average_Heart_Rate |->
        CoalesceAvg(AvgOver(Workout_Exercises, "WorkoutID", workoutId, "Heart_Rate_Avg")),
     Max_Heart_Rate |->
        COALESCE(MaxOver(Workout_Exercises, "WorkoutID", workoutId, "Heart_Rate_Avg"), 0)]

WorkoutTotalsOf(row) ==
    [Total_Duration |-> row.Total_Duration,
     Total_Calories_Burned |-> row.Total_Calories_Burned,
     Average_Heart_Rate |-> row.Average_Heart_Rate,
     Max_Heart_Rate |-> row.Max_Heart_Rate]

\* UPDATE Workouts SET Total_Duration = ?, ... WHERE WorkoutID = ?
SetWorkoutTotals(workoutId, t) ==
    [Workouts EXCEPT ![workoutId] =
        [@ EXCEPT !.Total_Duration = t.Total_Duration,
                  !.Total_Calories_Burned = t.Total_Calories_Burned,
                  !.Average_Heart_Rate = t.Average_Heart_Rate,
                  !.Max_Heart_Rate = t.Max_Heart_Rate]]

\* INSERT INTO Workouts (UserID, ...): the totals take their column defaults.
NewWorkoutRow(userId) ==
    [UserID |-> userId, Total_Duration |-> WorkoutDefaultTotal,
     Total_Calories_Burned |-> WorkoutDefaultTotal,
     Average_Heart_Rate |-> WorkoutDefaultAverage,
     Max_Heart_Rate |-> WorkoutDefaultTotal]

\* The exercises of a workout, as indices into Workout_Exercises.
ExercisesOf(workoutId) ==
    {i \in 1..Len(Workout_Exercises) : Workout_Exercises[i].WorkoutID = workoutId}

\* The sum of column col over the exercises of idx.
ExerciseSum(idx, col) ==
    LET f[S \in SUBSET idx] ==
            IF S = {} THEN 0
            ELSE LET i == CHOOSE j \in S : TRUE
                 IN  Workout_Exercises[i][col] + f[S \ {i}]
    IN  f[idx]

\* The reduction of the exercises of idx: sums of duration and calories,
\* mean and maximum of the heart rates that have a value, zero over nothing.
WorkoutReduction(idx) ==
    LET With(col) == {i \in idx : Workout_Exercises[i][col] # NULL}
        hr == With("Heart_Rate_Avg")
    IN  [Total_Duration |-> ExerciseSum(With("Duration"), "Duration"),
         Total_Calories_Burned |-> ExerciseSum(With("Calories_Burned"), "Calories_Burned"),
         Average_Heart_Rate |->
            IF hr = {} THEN ZeroRat
            ELSE Rat(ExerciseSum(hr, "Heart_Rate_Avg"), Cardinality(hr)),
         Max_Heart_Rate |->
            IF hr = {} THEN 0
            ELSE CHOOSE m \in {Workout_Exercises[i].Heart_Rate_Avg : i \in hr} :
                    \A i \in hr : Workout_Exercises[i].Heart_Rate_Avg <= m]

\* The stored routine UpdateWorkoutTotals(workoutId): the store-side
\* reduction of the exercises into the parent row, run as one statement.
UpdateWorkoutTotalsRoutine(workoutId) ==
    SetWorkoutTotals(workoutId, WorkoutReduction(ExercisesOf(workoutId)))

\* caloriesBurned of Workout.addExercise: zero unless a duration is given
\* and the exercise has a Calories_Per_Minute; then
\* Calories_Per_Minute * duration * (Current_Weight / 70).
AddExerciseCalories(exerciseId, duration, userId) ==
    IF duration # NULL /\ duration # 0
       /\ exerciseId \in 1..Len(Exercises)
       /\ Exercises[exerciseId].Calories_Per_Minute # NULL
       /\ Exercises[exerciseId].Calories_Per_Minute # 0
    THEN (Exercises[exerciseId].Calories_Per_Minute * duration * Current_Weight(userId)) \div 70
    ELSE 0

\* calculatedCalories of POST /api/workouts: the client's value if it is
\* truthy, else the computed one if there is a duration and a rate, else
\* whatever the client sent.
PostWorkoutCalories(exerciseId, duration, caloriesBurned, userId) ==
    IF (caloriesBurned = NULL \/ caloriesBurned = 0)
       /\ duration # NULL /\ duration # 0
       /\ exerciseId \in 1..Len(Exercises)
       /\ Exercises[exerciseId].Calories_Per_Minute # NULL
       /\ Exercises[exerciseId].Calories_Per_Minute # 0
    THEN (Exercises[exerciseId].Calories_Per_Minute * duration * Current_Weight(userId)) \div 70
    ELSE caloriesBurned

NewWorkoutExercise(workoutId, exerciseId, order, duration, calories, heartRateAvg) ==
    [WorkoutID |-> workoutId, ExerciseID |-> exerciseId, Exercise_Order |-> order,
     Duration |-> duration, Calories_Burned |-> calories, Heart_Rate_Avg |-> heartRateAvg]

\* --------------------------------------------------------- Workout model
\* Workout.create: INSERT INTO Workouts, then findById(insertId).
WorkoutCreate(p) ==
    /\ req[p].pc = "idle"
    /\ Len(Workouts) < MaxWorkouts
    /\ \E userId \in UserIds, ok \in BOOLEAN :
        IF ok
        THEN /\ Workouts' = Append(Workouts, NewWorkoutRow(userId))
             /\ req' = [req EXCEPT ![p] = [IdleReq EXCEPT !.pc = "done",
                            !.op = "Workout.create", !.id = Len(Workouts) + 1,
                            !.user = userId, !.out = "ok"]]
        ELSE /\ UNCHANGED Workouts
             /\ req' = [req EXCEPT ![p] = [IdleReq EXCEPT !.pc = "done",
                            !.op = "Workout.create", !.user = userId, !.err = "insert",
                            !.out = "throw"]]
    /\ UNCHANGED <<Workout_Exercises, nonWorkout, Activity_Logs>>

\* Workout.addExercise, first part: the SELECT of the next Exercise_Order,
\* then the calorie calculation from Exercises and User_Profiles (tables
\* nothing here writes).
WorkoutAddExercise(p) ==
    /\ req[p].pc = "idle"
    /\ Len(Workout_Exercises) < MaxExercises
    /\ \E workoutId \in 1..Len(Workouts), e \in ExerciseInputs, ok \in BOOLEAN :
        LET exerciseId == e.exerciseId
            duration == e.duration
            heartRateAvg == e.heartRateAvg
            userId == Workouts[workoutId].UserID
            start == [IdleReq EXCEPT !.op = "Workout.addExercise", !.id = workoutId,
                          !.user = userId]
            order == COALESCE(MaxOver(Workout_Exercises, "WorkoutID", workoutId,
                                      "Exercise_Order"), 0) + 1
        IN  IF exerciseId = 0
            THEN FALSE
            ELSE IF ok
            THEN req' = [req EXCEPT ![p] = [start EXCEPT !.pc = "ae_insert",
                            !.item = NewWorkoutExercise(workoutId, exerciseId, order, duration,
                                        AddExerciseCalories(exerciseId, duration, userId),
                                        heartRateAvg)]]
            ELSE req' = [req EXCEPT ![p] = [start EXCEPT !.pc = "done", !.err = "select",
                            !.out = "throw"]]
    /\ UNCHANGED <<Workouts, Workout_Exercises, nonWorkout, Activity_Logs>>

\* Workout.addExercise, the INSERT INTO Workout_Exercises.
WorkoutInsertExercise(p) ==
    /\ req[p].pc = "ae_insert"
    /\ \E ok \in BOOLEAN :
        IF ok
        THEN /\ Workout_Exercises' = Append(Workout_Exercises, req[p].item)
             /\ req' = [req EXCEPT ![p].pc = "wt_call", ![p].item = NoItem]
        ELSE /\ UNCHANGED Workout_Exercises
             /\ Throw(p, "insert")
    /\ UNCHANGED <<Workouts, nonWorkout, Activity_Logs>>

\* Workout.updateTotals, the stored-routine attempt.
WorkoutUpdateTotalsCall(p) ==
    /\ req[p].pc = "wt_call"
    /\ \E ok \in BOOLEAN :
        IF ok
        THEN /\ Workouts' = UpdateWorkoutTotalsRoutine(req[p].id)
             /\ req' = [req EXCEPT ![p].pc = "wt_refresh"]
        ELSE /\ UNCHANGED Workouts
             /\ req' = [req EXCEPT ![p].pc = "wt_read", ![p].err = "procedure"]
    /\ UNCHANGED <<Workout_Exercises, nonWorkout, Activity_Logs>>

\* Workout.updateTotals, fallback SELECT of the aggregates.
WorkoutUpdateTotalsRead(p) ==
    /\ req[p].pc = "wt_read"
    /\ \E ok \in BOOLEAN :
        IF ok
        THEN req' = [req EXCEPT ![p].pc = "wt_write",
                                ![p].totals = WorkoutTotalsQuery(req[p].id)]
        ELSE Throw(p, "read")
    /\ UNCHANGED <<Workouts, Workout_Exercises, nonWorkout, Activity_Logs>>

\* Workout.updateTotals, fallback UPDATE of the parent row.
WorkoutUpdateTotalsWrite(p) ==
    /\ req[p].pc = "wt_write"
    /\ \E ok \in BOOLEAN :
        IF ok
        THEN /\ Workouts' = SetWorkoutTotals(req[p].id, req[p].totals)
             /\ req' = [req EXCEPT ![p].pc = "wt_refresh"]
        ELSE /\ UNCHANGED Workouts
             /\ Throw(p, "write")
    /\ UNCHANGED <<Workout_Exercises, nonWorkout, Activity_Logs>>

\* Workout.updateTotals, the refresh: findById and Object.assign(this, ...).
WorkoutUpdateTotalsRefresh(p) ==
    /\ req[p].pc = "wt_refresh"
    /\ \E ok \in BOOLEAN :
        IF ok
        THEN req' = [req EXCEPT ![p].pc = "done", ![p].out = "ok",
                                ![p].this = WorkoutTotalsOf(Workouts[req[p].id])]
        ELSE Throw(p, "refresh")
    /\ UNCHANGED <<Workouts, Workout_Exercises, nonWorkout, Activity_Logs>>

WorkoutAddExerciseSteps(p) ==
    \/ WorkoutAddExercise(p)
    \/ WorkoutInsertExercise(p)
    \/ WorkoutUpdateTotalsCall(p)
    \/ WorkoutUpdateTotalsRead(p)
    \/ WorkoutUpdateTotalsWrite(p)
    \/ WorkoutUpdateTotalsRefresh(p)

\* ---------------------------------------------------- POST /api/workouts
\* Validation of the required field, then INSERT INTO Workouts.
PostWorkout(p) ==
    /\ req[p].pc = "idle"
    /\ Len(Workouts) < MaxWorkouts
    /\ \E userId \in UserIds, datePresent \in BOOLEAN, exercises \in ExerciseLists,
          ok \in BOOLEAN :
        LET start == [IdleReq EXCEPT !.op = "POST /api/workouts", !.user = userId]
        IN  /\ Len(Workout_Exercises) + Len(exercises) <= MaxExercises
            /\ IF ~datePresent
               THEN /\ UNCHANGED Workouts
                    /\ req' = [req EXCEPT ![p] = [start EXCEPT !.pc = "done", !.out = "400"]]
               ELSE IF ~ok
               THEN /\ UNCHANGED Workouts
                    /\ req' = [req EXCEPT ![p] = [start EXCEPT !.pc = "done", !.err = "insert",
                                   !.out = "500"]]
               ELSE /\ Workouts' = Append(Workouts, NewWorkoutRow(userId))
                    /\ req' = [req EXCEPT ![p] = [start EXCEPT !.id = Len(Workouts) + 1,
                                   !.list = exercises, !.n = 0,
                                   !.pc = IF Len(exercises) > 0 THEN "pw_items" ELSE "pw_log"]]
    /\ UNCHANGED <<Workout_Exercises, nonWorkout, Activity_Logs>>

\* One turn of the loop over exercises (index i = req[p].n): an entry with
\* no exerciseId is skipped, any other is inserted with Exercise_Order i + 1.
PostWorkoutItem(p) ==
    /\ req[p].pc = "pw_items"
    /\ LET e == Head(req[p].list)
           rest == Tail(req[p].list)
           i == req[p].n
           next == [req EXCEPT ![p].list = rest, ![p].n = i + 1,
                               ![p].pc = IF rest = <<>> THEN "pw_call" ELSE "pw_items"]
       IN  IF e.exerciseId = 0
           THEN /\ req' = next
                /\ UNCHANGED Workout_Exercises
           ELSE \E ok \in BOOLEAN :
                IF ~ok
                THEN /\ Respond500(p, "insert")
                     /\ UNCHANGED Workout_Exercises
                ELSE /\ Workout_Exercises' = Append(Workout_Exercises,
                            NewWorkoutExercise(req[p].id, e.exerciseId, i + 1, e.duration,
                                PostWorkoutCalories(e.exerciseId, e.duration,
                                                    e.caloriesBurned, req[p].user),
                                e.heartRateAvg))
                     /\ req' = next
    /\ UNCHANGED <<Workouts, nonWorkout, Activity_Logs>>

\* The stored-routine attempt of the route.
PostWorkoutCall(p) ==
    /\ req[p].pc = "pw_call"
    /\ \E ok \in BOOLEAN :
        IF ok
        THEN /\ Workouts' = UpdateWorkoutTotalsRoutine(req[p].id)
             /\ req' = [req EXCEPT ![p].pc = "pw_log"]
        ELSE /\ UNCHANGED Workouts
             /\ req' = [req EXCEPT ![p].pc = "pw_read", ![p].err = "procedure"]
    /\ UNCHANGED <<Workout_Exercises, nonWorkout, Activity_Logs>>

\* The route's fallback SELECT.
PostWorkoutRead(p) ==
    /\ req[p].pc = "pw_read"
    /\ \E ok \in BOOLEAN :
        IF ok
        THEN req' = [req EXCEPT ![p].pc = "pw_write",
                                ![p].totals = WorkoutTotalsQuery(req[p].id)]
        ELSE Respond500(p, "read")
    /\ UNCHANGED <<Workouts, Workout_Exercises, nonWorkout, Activity_Logs>>

\* The route's fallback UPDATE.
PostWorkoutWrite(p) ==
    /\ req[p].pc = "pw_write"
    /\ \E ok \in BOOLEAN :
        IF ok
        THEN /\ Workouts' = SetWorkoutTotals(req[p].id, req[p].totals)
             /\ req' = [req EXCEPT ![p].pc = "pw_log"]
        ELSE /\ UNCHANGED Workouts
             /\ Respond500(p, "write")
    /\ UNCHANGED <<Workout_Exercises, nonWorkout, Activity_Logs>>

\* The audit entry and the 201 response.
PostWorkoutLog(p) ==
    /\ req[p].pc = "pw_log"
    /\ \E ok \in BOOLEAN :
        IF ok
        THEN /\ Activity_Logs' = Append(Activity_Logs,
                    [UserID |-> req[p].user, Activity_Type |-> "Workout_Log"])
             /\ Respond(p, "201")
        ELSE /\ UNCHANGED Activity_Logs
             /\ Respond500(p, "log")
    /\ UNCHANGED <<Workouts, Workout_Exercises, nonWorkout>>

PostWorkoutSteps(p) ==
    \/ PostWorkout(p)
    \/ PostWorkoutItem(p)
    \/ PostWorkoutCall(p)
    \/ PostWorkoutRead(p)
    \/ PostWorkoutWrite(p)
    \/ PostWorkoutLog(p)

\* One request at a time, from the empty store.
WorkoutSeqNext ==
    \E p \in SeqProcs :
        WorkoutCreate(p) \/ WorkoutAddExerciseSteps(p) \/ PostWorkoutSteps(p) \/ Return(p)

WorkoutSeqSpec == Init /\ [][WorkoutSeqNext]_vars

\* ------------------------------------------------- concurrent item-additions
\* Two requests in flight at once, each one call of Meal.addFoodItem or of
\* Workout.addExercise, on a meal and a workout that already exist.
ConcInit ==
    /\ Meals = <<NewMealRow(1)>>
    /\ Meal_Items = <<>>
    /\ Workouts = <<NewWorkoutRow(1)>>
    /\ Workout_Exercises = <<>>
    /\ Goals = <<>>
    /\ Progress_Tracking = <<>>
    /\ now = 1
    /\ Activity_Logs = <<>>
    /\ AccountInit
    /\ db = DbInit
    /\ req = [p \in Procs |-> IdleReq]

ConcNext == \E p \in Procs : MealAddFoodItemSteps(p) \/ WorkoutAddExerciseSteps(p)

ConcSpec == ConcInit /\ [][ConcNext]_vars

\* ================================================================== Goals
\* if (activeGoalsCount[0].count >= 10)
ActiveGoalLimit == 10

GoalTypes ==
    {"Weight Loss", "Weight Gain", "Muscle Gain", "Strength", "Endurance", "Flexibility"}
ValidStatuses == {"Active", "Completed", "Paused", "Cancelled"}
\* the status of a PUT /:goalId/status body: a valid one, or another word.
StatusInputs == ValidStatuses \cup {"Deleted"}
\* targetValue of a POST body.
TargetInputs == {2}
\* currentValue of a PUT /:goalId/progress body: absent, or below, at or
\* above the target.
ValueInputs == {NULL, 1, 2, 3}

\* Column defaults of a freshly inserted Goals row (the INSERT names
\* neither the status, nor the current value, nor the completed date).
GoalDefaultStatus == "Active"
GoalDefaultValue == 0

NewGoalRow(userId, goalType, targetValue) ==
    [UserID |-> userId, Goal_Type |-> goalType, Target_Value |-> targetValue,
     Current_Value |-> GoalDefaultValue, Status |-> GoalDefaultStatus,
     Completed_Date |-> NULL]

\* The count of the user's goals of every status.
ActiveGoalsCount_AnyStatus(userId) ==
    Cardinality({g \in 1..Len(Goals) : Goals[g].UserID = userId})

\* SELECT COUNT(*) FROM Goals WHERE UserID = ? AND Status = 'Active'
ActiveGoalsCount(userId) ==
    Cardinality({g \in 1..Len(Goals) :
                    Goals[g].UserID = userId /\ Goals[g].Status = "Active"})

\* res.status(404).json({error, message}) of the goal handlers
GoalNotFound ==
    [error |-> "Goal not found", message |-> "Goal does not exist or access denied"]

\* A check by the goal's id alone.
GoalCheck_AnyOwner(goalId, userId) ==
    IF goalId \in 1..Len(Goals) THEN Goals[goalId] ELSE NoItem

\* The ownership check: SELECT ... FROM Goals WHERE GoalID = ? AND UserID = ?
GoalCheck(goalId, userId) ==
    IF goalId \in 1..Len(Goals) /\ Goals[goalId].UserID = userId
    THEN Goals[goalId] ELSE NoItem

\* The test with strict comparisons.
NewStatus_Strict(goal, currentValue) ==
    IF \/ goal.Goal_Type = "Weight Loss" /\ currentValue < goal.Target_Value
       \/ /\ goal.Goal_Type \in {"Weight Gain", "Muscle Gain", "Strength", "Endurance"}
          /\ currentValue > goal.Target_Value
    THEN "Completed" ELSE "Active"

\* The fallback's test of completion, on the row the ownership check read.
NewStatus(goal, currentValue) ==
    IF \/ goal.Goal_Type = "Weight Loss" /\ currentValue <= goal.Target_Value
       \/ /\ goal.Goal_Type \in {"Weight Gain", "Muscle Gain", "Strength", "Endurance"}
          /\ currentValue >= goal.Target_Value
    THEN "Completed" ELSE "Active"

\* Completed_Date = CASE WHEN ? = 'Completed' AND Status != 'Completed'
\*                       THEN CURRENT_TIMESTAMP ELSE Completed_Date END
\* as the last assignment of an UPDATE whose SET list assigns Status = ?
\* first.  The statements are MySQL's (CALL, CURDATE(), ? placeholders), and
\* MySQL evaluates the assignments of a single-table UPDATE from left to
\* right: a column named in a later expression has its updated value.  row
\* is the row after the assignments that precede this one.  (On the
\* PostgreSQL pool a statement with ? placeholders is rejected, which is
\* the failure outcome of the step that issues it.)
CompletedDateCase(row, status) ==
    IF status = "Completed" /\ row.Status # "Completed" THEN now ELSE row.Completed_Date

\* UPDATE Goals SET Current_Value = ?, Status = ?, Updated_Date = ...,
\*                  Completed_Date = CASE ... END WHERE GoalID = ?
ProgressUpdate(goalId, currentValue, newStatus) ==
    LET r1 == [Goals[goalId] EXCEPT !.Current_Value = currentValue]
        r2 == [r1 EXCEPT !.Status = newStatus]
        r3 == [r2 EXCEPT !.Completed_Date = CompletedDateCase(r2, newStatus)]
    IN  [Goals EXCEPT ![goalId] = r3]

\* UPDATE Goals SET Status = ?, Updated_Date = ..., Completed_Date = CASE ... END
\* WHERE GoalID = ?
StatusUpdate(goalId, status) ==
    LET r1 == [Goals[goalId] EXCEPT !.Status = status]
        r2 == [r1 EXCEPT !.Completed_Date = CompletedDateCase(r1, status)]
    IN  [Goals EXCEPT ![goalId] = r2]

\* A record that carries the goal's number as its value.
NewProgressRecord_GoalAsValue(userId, goalId, currentValue) ==
    [UserID |-> userId, GoalID |-> goalId, Value |-> goalId + 3]

NewProgressRecord(userId, goalId, currentValue) ==
    [UserID |-> userId, GoalID |-> goalId, Value |-> currentValue]

\* The stored routine's rule of completion: an Active goal is completed
\* when its value crosses the target in the direction of its type.
CrossesTarget(goalType, currentValue, targetValue) ==
    \/ goalType = "Weight Loss" /\ currentValue <= targetValue
    \/ /\ goalType \in {"Weight Gain", "Muscle Gain", "Strength", "Endurance"}
       /\ currentValue >= targetValue

\* The stored routine UpdateGoalProgress(goalId, currentValue), on Goals:
\* it records the value, completes an Active goal that crosses its target,
\* and stamps the completed date on the first completion only.
UpdateGoalProgressRoutine(goalId, currentValue) ==
    LET g == Goals[goalId]
        completes == g.Status = "Active"
                     /\ CrossesTarget(g.Goal_Type, currentValue, g.Target_Value)
    IN  [Goals EXCEPT ![goalId] =
            [g EXCEPT !.Current_Value = currentValue,
                      !.Status = IF completes THEN "Completed" ELSE @,
                      !.Completed_Date = IF completes /\ @ = NULL THEN now ELSE @]]

\* The stored routine UpdateGoalProgress(goalId, currentValue), on
\* Progress_Tracking: it appends the one record of the update.
UpdateGoalProgressRecord(goalId, currentValue) ==
    Append(Progress_Tracking,
           NewProgressRecord(Goals[goalId].UserID, goalId, currentValue))

\* ------------------------------------------------------- POST /api/goals
\* Validation, then the count of the user's Active goals against the limit.
GoalCreate(p) ==
    /\ req[p].pc = "idle"
    /\ Len(Goals) < MaxGoals
    /\ \E userId \in UserIds, goalType \in GoalTypes, targetValue \in TargetInputs,
          valid \in BOOLEAN, ok \in BOOLEAN :
        LET start == [IdleReq EXCEPT !.op = "POST /api/goals", !.user = userId,
                          !.row = NewGoalRow(userId, goalType, targetValue),
                          !.mark = Len(Goals)]
        IN  req' = [req EXCEPT ![p] =
                IF ~valid THEN [start EXCEPT !.pc = "done", !.out = "400"]
                ELSE IF ~ok THEN [start EXCEPT !.pc = "done", !.err = "select", !.out = "500"]
                ELSE IF ActiveGoalsCount(userId) >= ActiveGoalLimit
                THEN [start EXCEPT !.pc = "done", !.err = "Goal limit exceeded",
                                   !.out = "400"]
                ELSE [start EXCEPT !.pc = "gc_insert"]]
    /\ UNCHANGED <<Goals, Progress_Tracking, now, nonGoal, Activity_Logs>>

\* INSERT INTO Goals.
GoalCreateInsert(p) ==
    /\ req[p].pc = "gc_insert"
    /\ \E ok \in BOOLEAN :
        IF ok
        THEN /\ Goals' = Append(Goals, req[p].row)
             /\ req' = [req EXCEPT ![p].pc = "gc_log", ![p].id = Len(Goals) + 1]
        ELSE /\ UNCHANGED Goals
             /\ Respond500(p, "insert")
    /\ UNCHANGED <<Progress_Tracking, now, nonGoal, Activity_Logs>>

\* The audit entry and the 201 response.
GoalCreateLog(p) ==
    /\ req[p].pc = "gc_log"
    /\ \E ok \in BOOLEAN :
        IF ok
        THEN /\ Activity_Logs' = Append(Activity_Logs,
                    [UserID |-> req[p].user, Activity_Type |-> "Goal_Update"])
             /\ Respond(p, "201")
        ELSE /\ UNCHANGED Activity_Logs
             /\ Respond500(p, "log")
    /\ UNCHANGED <<Goals, Progress_Tracking, now, nonGoal>>

GoalCreateSteps(p) ==
    \/ GoalCreate(p)
    \/ GoalCreateInsert(p)
    \/ GoalCreateLog(p)

\* ------------------------------------------- PUT /api/goals/:goalId/progress
\* Validation of currentValue, then the ownership check.
GoalProgress(p) ==
    /\ req[p].pc = "idle"
    /\ Len(Progress_Tracking) < MaxProgress
    /\ now < MaxTime
    /\ \E goalId \in 1..(Len(Goals) + 1), userId \in UserIds, currentValue \in ValueInputs,
          ok \in BOOLEAN :
        LET start == [IdleReq EXCEPT !.op = "PUT /api/goals/:goalId/progress",
                          !.id = goalId, !.user = userId, !.value = currentValue,
                          !.mark = Len(Progress_Tracking)]
            goalCheck == GoalCheck(goalId, userId)
        IN  req' = [req EXCEPT ![p] =
                IF currentValue = NULL \/ currentValue < 0
                THEN [start EXCEPT !.pc = "done", !.out = "400"]
                ELSE IF ~ok THEN [start EXCEPT !.pc = "done", !.err = "select", !.out = "500"]
                ELSE IF goalCheck = NoItem
                THEN [start EXCEPT !.pc = "done", !.out = "404", !.body = GoalNotFound]
                ELSE [start EXCEPT !.pc = "gp_call", !.row = goalCheck]]
    /\ UNCHANGED <<Goals, Progress_Tracking, now, nonGoal, Activity_Logs>>

\* The stored-routine attempt: callProcedure('UpdateGoalProgress', ...)
\* either runs the routine, which also records the progress, or throws,
\* and the catch moves on to the manual update.
GoalProgressCall(p) ==
    /\ req[p].pc = "gp_call"
    /\ \E ok \in BOOLEAN :
        IF ok
        THEN /\ Goals' = UpdateGoalProgressRoutine(req[p].id, req[p].value)
             /\ Progress_Tracking' = UpdateGoalProgressRecord(req[p].id, req[p].value)
             /\ now' = now + 1
             /\ req' = [req EXCEPT ![p].pc = "gp_log"]
        ELSE /\ UNCHANGED <<Goals, Progress_Tracking, now>>
             /\ req' = [req EXCEPT ![p].pc = "gp_update", ![p].err = "procedure"]
    /\ UNCHANGED <<nonGoal, Activity_Logs>>

\* The fallback's UPDATE Goals.
GoalProgressUpdate(p) ==
    /\ req[p].pc = "gp_update"
    /\ \E ok \in BOOLEAN :
        IF ok
        THEN /\ Goals' = ProgressUpdate(req[p].id, req[p].value,
                                        NewStatus(req[p].row, req[p].value))
             /\ now' = now + 1
             /\ req' = [req EXCEPT ![p].pc = "gp_track"]
        ELSE /\ UNCHANGED <<Goals, now>>
             /\ Respond500(p, "write")
    /\ UNCHANGED <<Progress_Tracking, nonGoal, Activity_Logs>>

\* The fallback's INSERT INTO Progress_Tracking.
GoalProgressTrack(p) ==
    /\ req[p].pc = "gp_track"
    /\ \E ok \in BOOLEAN :
        IF ok
        THEN /\ Progress_Tracking' = Append(Progress_Tracking,
                    NewProgressRecord(req[p].user, req[p].id, req[p].value))
             /\ req' = [req EXCEPT ![p].pc = "gp_log"]
        ELSE /\ UNCHANGED Progress_Tracking
             /\ Respond500(p, "insert")
    /\ UNCHANGED <<Goals, now, nonGoal, Activity_Logs>>

\* The audit entry and the 200 response.
GoalProgressLog(p) ==
    /\ req[p].pc = "gp_log"
    /\ \E ok \in BOOLEAN :
        IF ok
        THEN /\ Activity_Logs' = Append(Activity_Logs,
                    [UserID |-> req[p].user, Activity_Type |-> "Goal_Update"])
             /\ Respond(p, "200")
        ELSE /\ UNCHANGED Activity_Logs
             /\ Respond500(p, "log")
    /\ UNCHANGED <<Goals, Progress_Tracking, now, nonGoal>>

GoalProgressSteps(p) ==
    \/ GoalProgress(p)
    \/ GoalProgressCall(p)
    \/ GoalProgressUpdate(p)
    \/ GoalProgressTrack(p)
    \/ GoalProgressLog(p)

\* --------------------------------------------- PUT /api/goals/:goalId/status
\* Validation of the status, then the ownership check.
GoalStatus(p) ==
    /\ req[p].pc = "idle"
    /\ now < MaxTime
    /\ \E goalId \in 1..(Len(Goals) + 1), userId \in UserIds, status \in StatusInputs,
          ok \in BOOLEAN :
        LET start == [IdleReq EXCEPT !.op = "PUT /api/goals/:goalId/status",
                          !.id = goalId, !.user = userId, !.status = status,
                          !.mark = Len(Progress_Tracking)]
            goalCheck == GoalCheck(goalId, userId)
        IN  req' = [req EXCEPT ![p] =
                IF status \notin ValidStatuses
                THEN [start EXCEPT !.pc = "done", !.out = "400"]
                ELSE IF ~ok THEN [start EXCEPT !.pc = "done", !.err = "select", !.out = "500"]
                ELSE IF goalCheck = NoItem
                THEN [start EXCEPT !.pc = "done", !.out = "404", !.body = GoalNotFound]
                ELSE [start EXCEPT !.pc = "gs_update", !.row = goalCheck]]
    /\ UNCHANGED <<Goals, Progress_Tracking, now, nonGoal, Activity_Logs>>

\* UPDATE Goals SET Status = ?, ...
GoalStatusUpdate(p) ==
    /\ req[p].pc = "gs_update"
    /\ \E ok \in BOOLEAN :
        IF ok
        THEN /\ Goals' = StatusUpdate(req[p].id, req[p].status)
             /\ now' = now + 1
             /\ req' = [req EXCEPT ![p].pc = "gs_log"]
        ELSE /\ UNCHANGED <<Goals, now>>
             /\ Respond500(p, "write")
    /\ UNCHANGED <<Progress_Tracking, nonGoal, Activity_Logs>>

\* The audit entry and the 200 response.
GoalStatusLog(p) ==
    /\ req[p].pc = "gs_log"
    /\ \E ok \in BOOLEAN :
        IF ok
        THEN /\ Activity_Logs' = Append(Activity_Logs,
                    [UserID |-> req[p].user, Activity_Type |-> "Goal_Update"])
             /\ Respond(p, "200")
        ELSE /\ UNCHANGED Activity_Logs
             /\ Respond500(p, "log")
    /\ UNCHANGED <<Goals, Progress_Tracking, now, nonGoal>>

GoalStatusSteps(p) ==
    \/ GoalStatus(p)
    \/ GoalStatusUpdate(p)
    \/ GoalStatusLog(p)

\* The store once user 1 has as many Active goals as the limit allows,
\* with the clock one tick before its last: one more UPDATE can follow.
GoalLimitInit ==
    /\ Meals = <<>>
    /\ Meal_Items = <<>>
    /\ Workouts = <<>>
    /\ Workout_Exercises = <<>>
    /\ Goals = [g \in 1..ActiveGoalLimit |-> NewGoalRow(1, "Strength", 2)]
    /\ Progress_Tracking = <<>>
    /\ now = MaxTime - 1
    /\ Activity_Logs = [g \in 1..ActiveGoalLimit |->
                            [UserID |-> 1, Activity_Type |-> "Goal_Update"]]
    /\ AccountInit
    /\ db = DbInit
    /\ req = [p \in Procs |-> IdleReq]

\* Goal creation and status updates, one request at a time.
GoalCreateNext ==
    \E p \in SeqProcs : GoalCreateSteps(p) \/ GoalStatusSteps(p) \/ Return(p)

GoalCreateSpec == GoalLimitInit /\ [][GoalCreateNext]_vars

\* The store once user 1 has created a goal, of any type.
GoalInit ==
    /\ Meals = <<>>
    /\ Meal_Items = <<>>
    /\ Workouts = <<>>
    /\ Workout_Exercises = <<>>
    /\ \E goalType \in GoalTypes, targetValue \in TargetInputs :
          Goals = <<NewGoalRow(1, goalType, targetValue)>>
    /\ Progress_Tracking = <<>>
    /\ now = 1
    /\ Activity_Logs = <<[UserID |-> 1, Activity_Type |-> "Goal_Update"]>>
    /\ AccountInit
    /\ db = DbInit
    /\ req = [p \in Procs |-> IdleReq]

\* Progress and status updates of that goal, one request at a time.
GoalSeqNext ==
    \E p \in SeqProcs : GoalProgressSteps(p) \/ GoalStatusSteps(p) \/ Return(p)

GoalSeqSpec == GoalInit /\ [][GoalSeqNext]_vars

\* alice has ten goals, nine Active and one she has set to Paused.
GoalPausedInit ==
    /\ Meals = <<>>
    /\ Meal_Items = <<>>
    /\ Workouts = <<>>
    /\ Workout_Exercises = <<>>
    /\ Goals = [g \in 1..ActiveGoalLimit |->
                    IF g = 1 THEN [NewGoalRow(1, "Strength", 2) EXCEPT !.Status = "Paused"]
                    ELSE NewGoalRow(1, "Strength", 2)]
    /\ Progress_Tracking = <<>>
    /\ now = MaxTime - 1
    /\ Activity_Logs = [g \in 1..(ActiveGoalLimit + 1) |->
                            [UserID |-> 1, Activity_Type |-> "Goal_Update"]]
    /\ AccountInit
    /\ db = DbInit
    /\ req = [p \in Procs |-> IdleReq]

\* Goal creations, progress updates and status updates, one request at a time.
GoalLimitSeqNext ==
    \E p \in SeqProcs :
        GoalCreateSteps(p) \/ GoalProgressSteps(p) \/ GoalStatusSteps(p) \/ Return(p)

GoalLimitSeqSpec == GoalPausedInit /\ [][GoalLimitSeqNext]_vars

\* alice has nine Active goals.
GoalConcInit ==
    /\ Meals = <<>>
    /\ Meal_Items = <<>>
    /\ Workouts = <<>>
    /\ Workout_Exercises = <<>>
    /\ Goals = [g \in 1..(ActiveGoalLimit - 1) |-> NewGoalRow(1, "Strength", 2)]
    /\ Progress_Tracking = <<>>
    /\ now = 1
    /\ Activity_Logs = [g \in 1..(ActiveGoalLimit - 1) |->
                            [UserID |-> 1, Activity_Type |-> "Goal_Update"]]
    /\ AccountInit
    /\ db = DbInit
    /\ req = [p \in Procs |-> IdleReq]

\* One goal creation of each of two tasks, their steps interleaved.
GoalConcNext == \E p \in Procs : GoalCreateSteps(p)

GoalConcSpec == GoalConcInit /\ [][GoalConcNext]_vars

\* ============================================================ Access Gate
MaxAudit == 2          \* rows of Activity_Logs the account requests may reach
MaxUsers == 4          \* rows of Users

\* expiresIn: process.env.JWT_EXPIRES_IN || '24h', in ticks of the clock.
ExpiresIn == 2

\* jwt.sign({userId, username, email}, secret, {expiresIn}) at the time now.
JwtSign(userId, username, email) ==
    [userId |-> userId, username |-> username, email |-> email, exp |-> now + ExpiresIn]

\* The Authorization header of a request: absent; "Bearer " and nothing
\* else; a string that is no token; a token whose signature does not
\* verify; or a token the application signed.
AuthHeaders ==
    {[kind |-> k] : k \in {"none", "empty", "malformed", "badsig"}}
        \cup {[kind |-> "signed", token |-> t] : t \in tokens}

\* A verification that reports an expired token as a bad one.
JwtVerify_ExpiredAsInvalid(header) ==
    IF header.kind \in {"malformed", "badsig"} THEN [name |-> "JsonWebTokenError"]
    ELSE IF now >= header.token.exp THEN [name |-> "JsonWebTokenError"]
    ELSE [name |-> "none", decoded |-> header.token]

\* jwt.verify(token, secret): the signature is checked before the expiry.
JwtVerify(header) ==
    IF header.kind \in {"malformed", "badsig"} THEN [name |-> "JsonWebTokenError"]
    ELSE IF now >= header.token.exp THEN [name |-> "TokenExpiredError"]
    ELSE [name |-> "none", decoded |-> header.token]

\* res.status(code).json({error, message})
RespondWith(p, code, error, message) ==
    req' = [req EXCEPT ![p].pc = "done", ![p].out = code,
                       ![p].body = [error |-> error, message |-> message]]

\* users.length === 0 for SELECT ... FROM Users WHERE UserID = ?
UserFound(userId) == userId \in 1..Len(Users) /\ Users[userId] # NoItem

\* user.Account_Status !== 'Active', negated, with every status passing.
AccountActive_AnyStatus(userId) == TRUE

\* user.Account_Status !== 'Active', negated.
AccountActive(userId) == Users[userId].Account_Status = "Active"

\* The query of optionalAuth without its test of the status.
ActiveUserFound_AnyStatus(userId) == UserFound(userId)

\* users.length > 0 for SELECT ... WHERE UserID = ? AND Account_Status = 'Active'
ActiveUserFound(userId) == UserFound(userId) /\ AccountActive(userId)

\* An identity with the name and the address exchanged.
Identity_Exchanged(userId) ==
    [userId |-> userId, username |-> Users[userId].Email, email |-> Users[userId].Username]

\* req.user = {userId, username, email} of the row read.
Identity(userId) ==
    [userId |-> userId, username |-> Users[userId].Username, email |-> Users[userId].Email]

\* The routes behind auth that the account model follows.
ProtectedOps == {"PUT /api/users/password", "PUT /api/users/profile"}

\* Bodies of the protected requests; "" and NULL stand for a missing field.
ProtectedBodies(op) ==
    IF op = "PUT /api/users/password"
    THEN {[currentPassword |-> c, newPassword |-> n] :
              c \in {"", "secret1", "secret9"}, n \in {"", "short", "secret9"}}
    ELSE {[firstName |-> f, currentWeight |-> w, themePreference |-> t] :
              f \in {"", "Al"}, w \in {NULL, 80}, t \in {"", "Dark"}}

\* auth before the route op, up to jwt.verify: the header, the token in
\* it, its verification.
AuthFor(p, op) ==
    /\ req[p].pc = "idle"
    /\ Len(Activity_Logs) < MaxAudit
    /\ \E authHeader \in AuthHeaders, body \in ProtectedBodies(op) :
        LET start == [IdleReq EXCEPT !.op = op, !.header = authHeader, !.item = body,
                          !.mark = Len(Activity_Logs)]
            denied(error, message) ==
                [start EXCEPT !.pc = "done", !.out = "401",
                              !.body = [error |-> error, message |-> message]]
            jwtError == JwtVerify(authHeader)
        IN  req' = [req EXCEPT ![p] =
                IF authHeader.kind = "none"
                THEN denied("Access denied", "No token provided")
                ELSE IF authHeader.kind = "empty"
                THEN denied("Access denied", "Invalid token format")
                ELSE IF jwtError.name = "TokenExpiredError"
                THEN denied("Token expired", "Please login again")
                ELSE IF jwtError.name = "JsonWebTokenError"
                THEN denied("Invalid token", "Token is malformed")
                ELSE [start EXCEPT !.pc = "auth_query", !.decoded = jwtError.decoded]]
    /\ UNCHANGED <<Activity_Logs, now, account, nonAccount>>

Auth(p) == \E op \in ProtectedOps : AuthFor(p, op)

\* auth, from the re-fetch of the user on: a failed query is rethrown by
\* the inner catch and answered 500 by the outer one.
AuthQuery(p) ==
    /\ req[p].pc = "auth_query"
    /\ \E ok \in BOOLEAN :
        LET userId == req[p].decoded.userId
        IN  IF ~ok
            THEN RespondWith(p, "500", "Authentication failed",
                             "Internal server error during authentication")
            ELSE IF ~UserFound(userId)
            THEN RespondWith(p, "401", "Access denied", "User not found")
            ELSE IF ~AccountActive(userId)
            THEN RespondWith(p, "401", "Access denied", "Account suspended or inactive")
            ELSE req' = [req EXCEPT ![p].pc = "next", ![p].identity = Identity(userId),
                                    ![p].user = userId,
                                    ![p].nextCalls = req[p].nextCalls + 1]
    /\ UNCHANGED <<Activity_Logs, now, account, nonAccount>>

\* optionalAuth, up to jwt.verify: without a token, or with one that does
\* not verify, req.user is null and next() is called.
OptionalAuth(p) ==
    /\ req[p].pc = "idle"
    /\ \E authHeader \in AuthHeaders :
        LET start == [IdleReq EXCEPT !.op = "optionalAuth", !.header = authHeader]
            jwtError == JwtVerify(authHeader)
        IN  req' = [req EXCEPT ![p] =
                IF authHeader.kind \in {"none", "empty"} \/ jwtError.name # "none"
                THEN [start EXCEPT !.pc = "next", !.identity = NoItem, !.nextCalls = 1]
                ELSE [start EXCEPT !.pc = "oa_query", !.decoded = jwtError.decoded]]
    /\ UNCHANGED <<Activity_Logs, now, account, nonAccount>>

\* optionalAuth, the query for the Active user: a failed query is caught
\* like a jwt error.
OptionalAuthQuery(p) ==
    /\ req[p].pc = "oa_query"
    /\ \E ok \in BOOLEAN :
        LET userId == req[p].decoded.userId
            found == ok /\ ActiveUserFound(userId)
        IN  req' = [req EXCEPT ![p].pc = "next",
                               ![p].identity = IF found THEN Identity(userId) ELSE NoItem,
                               ![p].user = IF found THEN userId ELSE 0,
                               ![p].nextCalls = req[p].nextCalls + 1]
    /\ UNCHANGED <<Activity_Logs, now, account, nonAccount>>

\* What follows optionalAuth: no route of the application uses it, so the
\* request ends with whatever its handler does.
OptionalNext(p) ==
    /\ req[p].pc = "next"
    /\ req[p].op = "optionalAuth"
    /\ req' = [req EXCEPT ![p].pc = "done"]
    /\ UNCHANGED <<Activity_Logs, now, account, nonAccount>>

\* =============================================================== Accounts
\* A comparison that every password passes.
BcryptCompare_Always(password, hash) == TRUE

\* bcrypt.compare(password, hash)
BcryptCompare(password, hash) == hash = BcryptHash(password, hash.salt)

\* newPassword.length < 6
MinPasswordLength == 6

\* An audit row without the actor.
LogRow_NoActor(userId, type, status) ==
    [UserID |-> NULL, Activity_Type |-> type, Status |-> status]

\* INSERT INTO Activity_Logs (UserID, Activity_Type, Description, Status)
LogRow(userId, type, status) ==
    [UserID |-> userId, Activity_Type |-> type, Status |-> status]

\* ------------------------------------------------- PUT /api/users/password
\* Validation, then the read of the stored hash.
ChangePassword(p) ==
    /\ req[p].pc = "next"
    /\ req[p].op = "PUT /api/users/password"
    /\ \E ok \in BOOLEAN :
        LET userId == req[p].identity.userId
            currentPassword == req[p].item.currentPassword
            newPassword == req[p].item.newPassword
        IN  IF currentPassword = "" \/ newPassword = ""
            THEN RespondWith(p, "400", "Validation failed",
                             "Current password and new password are required")
            ELSE IF Len(newPassword) < MinPasswordLength
            THEN RespondWith(p, "400", "Validation failed",
                             "New password must be at least 6 characters long")
            ELSE IF ~ok THEN Respond500(p, "select")
            ELSE IF ~UserFound(userId)
            THEN RespondWith(p, "404", "User not found", "User does not exist")
            ELSE req' = [req EXCEPT ![p].pc = "cp_compare",
                                    ![p].row = [Password_Hash |-> Users[userId].Password_Hash]]
    /\ UNCHANGED <<Activity_Logs, now, account, nonAccount>>

\* bcrypt.compare of the current password, then bcrypt.hash of the new one.
ChangePasswordCompare(p) ==
    /\ req[p].pc = "cp_compare"
    /\ \E salt \in Salts :
        IF ~BcryptCompare(req[p].item.currentPassword, req[p].row.Password_Hash)
        THEN RespondWith(p, "401", "Authentication failed", "Current password is incorrect")
        ELSE req' = [req EXCEPT ![p].pc = "cp_update",
                                ![p].row = [Password_Hash |-> req[p].row.Password_Hash,
                                            hashedNewPassword |->
                                                BcryptHash(req[p].item.newPassword, salt)]]
    /\ UNCHANGED <<Activity_Logs, now, account, nonAccount>>

\* UPDATE Users SET Password_Hash = ? WHERE UserID = ?
ChangePasswordUpdate(p) ==
    /\ req[p].pc = "cp_update"
    /\ \E ok \in BOOLEAN :
        LET userId == req[p].identity.userId
        IN  IF ok
            THEN /\ Users' = IF UserFound(userId)
                             THEN [Users EXCEPT ![userId].Password_Hash =
                                                    req[p].row.hashedNewPassword]
                             ELSE Users
                 /\ req' = [req EXCEPT ![p].pc = "cp_log"]
            ELSE /\ UNCHANGED Users
                 /\ Respond500(p, "write")
    /\ UNCHANGED <<Activity_Logs, now, User_Profiles, User_Preferences, tokens, nonAccount>>

\* The audit entry and the 200 response.
ChangePasswordLog(p) ==
    /\ req[p].pc = "cp_log"
    /\ \E ok \in BOOLEAN :
        IF ok
        THEN /\ Activity_Logs' = Append(Activity_Logs,
                    LogRow(req[p].identity.userId, "Password_Change", "Success"))
             /\ Respond(p, "200")
        ELSE /\ UNCHANGED Activity_Logs
             /\ Respond500(p, "log")
    /\ UNCHANGED <<now, account, nonAccount>>

ChangePasswordSteps(p) ==
    \/ ChangePassword(p)
    \/ ChangePasswordCompare(p)
    \/ ChangePasswordUpdate(p)
    \/ ChangePasswordLog(p)

\* -------------------------------------------------- PUT /api/users/profile
\* UPDATE t SET c = COALESCE(?, c) WHERE UserID = ?, on the rows of a table
\* that carry a UserID column.
UpdateWhereUserID(table, userId, col, value) ==
    [i \in 1..Len(table) |->
        IF table[i].UserID = userId THEN [table[i] EXCEPT ![col] = value] ELSE table[i]]

\* if (firstName || lastName || phone): UPDATE Users
UpdateProfile(p) ==
    /\ req[p].pc = "next"
    /\ req[p].op = "PUT /api/users/profile"
    /\ \E ok \in BOOLEAN :
        LET userId == req[p].identity.userId
        IN  IF req[p].item.firstName = ""
            THEN /\ UNCHANGED Users
                 /\ req' = [req EXCEPT ![p].pc = "up_profile"]
            ELSE IF ok
            THEN /\ Users' = IF UserFound(userId)
                             THEN [Users EXCEPT ![userId].First_Name = req[p].item.firstName]
                             ELSE Users
                 /\ req' = [req EXCEPT ![p].pc = "up_profile"]
            ELSE /\ UNCHANGED Users
                 /\ Respond500(p, "write")
    /\ UNCHANGED <<Activity_Logs, now, User_Profiles, User_Preferences, tokens, nonAccount>>

\* if (currentWeight || ...): UPDATE User_Profiles
UpdateProfileProfiles(p) ==
    /\ req[p].pc = "up_profile"
    /\ \E ok \in BOOLEAN :
        IF req[p].item.currentWeight = NULL
        THEN /\ UNCHANGED User_Profiles
             /\ req' = [req EXCEPT ![p].pc = "up_preferences"]
        ELSE IF ok
        THEN /\ User_Profiles' = UpdateWhereUserID(User_Profiles, req[p].identity.userId,
                                     "Current_Weight", req[p].item.currentWeight)
             /\ req' = [req EXCEPT ![p].pc = "up_preferences"]
        ELSE /\ UNCHANGED User_Profiles
             /\ Respond500(p, "write")
    /\ UNCHANGED <<Activity_Logs, now, Users, User_Preferences, tokens, nonAccount>>

\* if (... || themePreference || ...): UPDATE User_Preferences
UpdateProfilePreferences(p) ==
    /\ req[p].pc = "up_preferences"
    /\ \E ok \in BOOLEAN :
        IF req[p].item.themePreference = ""
        THEN /\ UNCHANGED User_Preferences
             /\ req' = [req EXCEPT ![p].pc = "up_bmr"]
        ELSE IF ok
        THEN /\ User_Preferences' = UpdateWhereUserID(User_Preferences,
                                       req[p].identity.userId,
                                       "Theme_Preference", req[p].item.themePreference)
             /\ req' = [req EXCEPT ![p].pc = "up_bmr"]
        ELSE /\ UNCHANGED User_Preferences
             /\ Respond500(p, "write")
    /\ UNCHANGED <<Activity_Logs, now, Users, User_Profiles, tokens, nonAccount>>

\* if (currentWeight || height): callProcedure('CalculateBMR'), whose
\* failure is caught and ignored; the BMR column is not followed.
UpdateProfileBMR(p) ==
    /\ req[p].pc = "up_bmr"
    /\ \E ok \in BOOLEAN :
        req' = [req EXCEPT ![p].pc = "up_log",
                           ![p].err = IF req[p].item.currentWeight # NULL /\ ~ok
                                      THEN "procedure" ELSE req[p].err]
    /\ UNCHANGED <<Activity_Logs, now, account, nonAccount>>

\* The audit entry and the 200 response.
UpdateProfileLog(p) ==
    /\ req[p].pc = "up_log"
    /\ \E ok \in BOOLEAN :
        IF ok
        THEN /\ Activity_Logs' = Append(Activity_Logs,
                    LogRow(req[p].identity.userId, "Profile_Update", "Success"))
             /\ Respond(p, "200")
        ELSE /\ UNCHANGED Activity_Logs
             /\ Respond500(p, "log")
    /\ UNCHANGED <<now, account, nonAccount>>

UpdateProfileSteps(p) ==
    \/ UpdateProfile(p)
    \/ UpdateProfileProfiles(p)
    \/ UpdateProfilePreferences(p)
    \/ UpdateProfileBMR(p)
    \/ UpdateProfileLog(p)

\* ------------------------------------------------------ POST /api/auth/login
LoginEmails == {"", "alice@x.io", "nobody@x.io"}
LoginPasswords == {"", "secret1", "secret9"}

\* users[0] of SELECT ... FROM Users WHERE Email = ?, or 0.
FindByEmail(email) ==
    LET found == {u \in 1..Len(Users) : Users[u] # NoItem /\ Users[u].Email = email}
    IN  IF found = {} THEN 0 ELSE CHOOSE u \in found : \A v \in found : u <= v

\* Validation, the read of the user by email, and the account status.
Login(p) ==
    /\ req[p].pc = "idle"
    /\ Len(Activity_Logs) < MaxAudit
    /\ \E email \in LoginEmails, password \in LoginPasswords, ok \in BOOLEAN :
        LET start == [IdleReq EXCEPT !.op = "POST /api/auth/login",
                          !.item = [email |-> email, password |-> password],
                          !.mark = Len(Activity_Logs)]
            userId == FindByEmail(email)
            denied(code, error, message) ==
                [start EXCEPT !.pc = "done", !.out = code,
                              !.body = [error |-> error, message |-> message]]
        IN  req' = [req EXCEPT ![p] =
                IF email = "" \/ password = ""
                THEN denied("400", "Validation failed", "Email and password are required")
                ELSE IF ~ok THEN [start EXCEPT !.pc = "done", !.err = "select", !.out = "500"]
                ELSE IF userId = 0
                THEN denied("401", "Authentication failed", "Invalid email or password")
                ELSE IF Users[userId].Account_Status # "Active"
                THEN denied("401", "Account inactive", "Your account is suspended or inactive")
                ELSE [start EXCEPT !.pc = "li_compare", !.user = userId,
                                   !.row = Users[userId]]]
    /\ UNCHANGED <<Activity_Logs, now, account, nonAccount>>

\* bcrypt.compare(password, user.Password_Hash)
LoginCompare(p) ==
    /\ req[p].pc = "li_compare"
    /\ req' = [req EXCEPT ![p].pc =
                  IF BcryptCompare(req[p].item.password, req[p].row.Password_Hash)
                  THEN "li_update" ELSE "li_failed"]
    /\ UNCHANGED <<Activity_Logs, now, account, nonAccount>>

\* The audit entry of a failed attempt, and its 401.
LoginFailed(p) ==
    /\ req[p].pc = "li_failed"
    /\ \E ok \in BOOLEAN :
        IF ok
        THEN /\ Activity_Logs' = Append(Activity_Logs, LogRow(req[p].user, "Login", "Failed"))
             /\ RespondWith(p, "401", "Authentication failed", "Invalid email or password")
        ELSE /\ UNCHANGED Activity_Logs
             /\ Respond500(p, "log")
    /\ UNCHANGED <<now, account, nonAccount>>

\* UPDATE Users SET Last_Login = CURRENT_TIMESTAMP WHERE UserID = ?
LoginUpdate(p) ==
    /\ req[p].pc = "li_update"
    /\ \E ok \in BOOLEAN :
        IF ok
        THEN /\ Users' = IF UserFound(req[p].user)
                         THEN [Users EXCEPT ![req[p].user].Last_Login = now]
                         ELSE Users
             /\ req' = [req EXCEPT ![p].pc = "li_log"]
        ELSE /\ UNCHANGED Users
             /\ Respond500(p, "write")
    /\ UNCHANGED <<Activity_Logs, now, User_Profiles, User_Preferences, tokens, nonAccount>>

\* The audit entry, the token and the 200 response that carries it.
LoginLog(p) ==
    /\ req[p].pc = "li_log"
    /\ \E ok \in BOOLEAN :
        IF ok
        THEN LET token == JwtSign(req[p].user, req[p].row.Username, req[p].row.Email)
             IN  /\ Activity_Logs' = Append(Activity_Logs,
                        LogRow(req[p].user, "Login", "Success"))
                 /\ tokens' = tokens \cup {token}
                 /\ req' = [req EXCEPT ![p].pc = "done", ![p].out = "200",
                                       ![p].body = [token |-> token]]
        ELSE /\ UNCHANGED <<Activity_Logs, tokens>>
             /\ Respond500(p, "log")
    /\ UNCHANGED <<now, Users, User_Profiles, User_Preferences, nonAccount>>

LoginSteps(p) ==
    \/ Login(p)
    \/ LoginCompare(p)
    \/ LoginFailed(p)
    \/ LoginUpdate(p)
    \/ LoginLog(p)

\* --------------------------------------------------- POST /api/auth/register
\* Fields of a registration body: "" is a missing username, "bad" an
\* address the format test rejects, "short" a password of five characters.
RegisterUsernames == {"", "alice", "carol", "dave"}
RegisterEmails == {"alice@x.io", "carol@x.io", "dave@x.io", "bad"}
RegisterPasswords == {"short", "secret9"}

\* emailRegex.test(email)
EmailFormatOk(email) == email # "bad"

\* A lookup by email alone.
ExistingUsers_EmailOnly(email, username) ==
    {u \in 1..Len(Users) : Users[u] # NoItem /\ Users[u].Email = email}

\* SELECT UserID FROM Users WHERE Email = ? OR Username = ?
ExistingUsers(email, username) ==
    {u \in 1..Len(Users) :
        Users[u] # NoItem /\ (Users[u].Email = email \/ Users[u].Username = username)}

\* Validation, then the check that no user has the email or the username.
Register(p) ==
    /\ req[p].pc = "idle"
    /\ Len(Users) < MaxUsers
    /\ \E username \in RegisterUsernames, email \in RegisterEmails,
          password \in RegisterPasswords, ok \in BOOLEAN :
        LET start == [IdleReq EXCEPT !.op = "POST /api/auth/register",
                          !.item = [username |-> username, email |-> email,
                                    password |-> password],
                          !.mark = <<Len(Users), Len(User_Profiles), Len(User_Preferences),
                                     Len(Activity_Logs)>>]
            denied(code, error, message) ==
                [start EXCEPT !.pc = "done", !.out = code,
                              !.body = [error |-> error, message |-> message]]
        IN  req' = [req EXCEPT ![p] =
                IF username = ""
                THEN denied("400", "Validation failed", "All required fields must be provided")
                ELSE IF ~EmailFormatOk(email)
                THEN denied("400", "Validation failed", "Invalid email format")
                ELSE IF Len(password) < MinPasswordLength
                THEN denied("400", "Validation failed",
                            "Password must be at least 6 characters long")
                ELSE IF ~ok THEN [start EXCEPT !.pc = "done", !.err = "select", !.out = "500"]
                ELSE IF ExistingUsers(email, username) # {}
                THEN denied("409", "User exists",
                            "User with this email or username already exists")
                ELSE [start EXCEPT !.pc = "rg_user"]]
    /\ UNCHANGED <<Activity_Logs, now, account, nonAccount>>

\* bcrypt.hash, then INSERT INTO Users.
RegisterUser(p) ==
    /\ req[p].pc = "rg_user"
    /\ \E salt \in Salts, ok \in BOOLEAN :
        IF ok
        THEN /\ Users' = Append(Users,
                    NewUserRow(req[p].item.username, req[p].item.email,
                               BcryptHash(req[p].item.password, salt), "New"))
             /\ req' = [req EXCEPT ![p].pc = "rg_profile", ![p].id = Len(Users) + 1,
                                   ![p].user = Len(Users) + 1]
        ELSE /\ UNCHANGED Users
             /\ Respond500(p, "insert")
    /\ UNCHANGED <<Activity_Logs, now, User_Profiles, User_Preferences, tokens, nonAccount>>

\* INSERT INTO User_Profiles.
RegisterProfile(p) ==
    /\ req[p].pc = "rg_profile"
    /\ \E ok \in BOOLEAN :
        IF ok
        THEN /\ User_Profiles' = Append(User_Profiles, NewProfileRow(req[p].id))
             /\ req' = [req EXCEPT ![p].pc = "rg_preferences"]
        ELSE /\ UNCHANGED User_Profiles
             /\ Respond500(p, "profile")
    /\ UNCHANGED <<Activity_Logs, now, Users, User_Preferences, tokens, nonAccount>>

\* INSERT INTO User_Preferences.
RegisterPreferences(p) ==
    /\ req[p].pc = "rg_preferences"
    /\ \E ok \in BOOLEAN :
        IF ok
        THEN /\ User_Preferences' = Append(User_Preferences, NewPreferencesRow(req[p].id))
             /\ req' = [req EXCEPT ![p].pc = "rg_log"]
        ELSE /\ UNCHANGED User_Preferences
             /\ Respond500(p, "preferences")
    /\ UNCHANGED <<Activity_Logs, now, Users, User_Profiles, tokens, nonAccount>>

\* jwt.sign, the audit entry, and the 201 response that carries the token.
RegisterLog(p) ==
    /\ req[p].pc = "rg_log"
    /\ \E ok \in BOOLEAN :
        IF ok
        THEN LET token == JwtSign(req[p].id, req[p].item.username, req[p].item.email)
             IN  /\ Activity_Logs' = Append(Activity_Logs,
                        LogRow(req[p].id, "Register", "Success"))
                 /\ tokens' = tokens \cup {token}
                 /\ req' = [req EXCEPT ![p].pc = "done", ![p].out = "201",
                                       ![p].body = [token |-> token]]
        ELSE /\ UNCHANGED <<Activity_Logs, tokens>>
             /\ Respond500(p, "log")
    /\ UNCHANGED <<now, Users, User_Profiles, User_Preferences, nonAccount>>

RegisterSteps(p) ==
    \/ Register(p)
    \/ RegisterUser(p)
    \/ RegisterProfile(p)
    \/ RegisterPreferences(p)
    \/ RegisterLog(p)

\* Registrations, one at a time, after the two registered users.
RegisterNext ==
    \E p \in SeqProcs : RegisterSteps(p) \/ Return(p)

RegisterSpec == Init /\ [][RegisterNext]_vars

\* ------------------------------------------------------ what is not a route
\* An administrator changes the status of an account.
AccountStatuses == {"Active", "Suspended"}
AdminSetStatus ==
    \E u \in UserIds, status \in AccountStatuses :
        /\ UserFound(u)
        /\ Users[u].Account_Status # status
        /\ Users' = [Users EXCEPT ![u].Account_Status = status]
        /\ UNCHANGED <<Activity_Logs, now, User_Profiles, User_Preferences, tokens,
                       nonAccount, req>>

\* The row of a user is removed from the store.
AdminDeleteUser ==
    \E u \in UserIds :
        /\ UserFound(u)
        /\ Users' = [Users EXCEPT ![u] = NoItem]
        /\ UNCHANGED <<Activity_Logs, now, User_Profiles, User_Preferences, tokens,
                       nonAccount, req>>

\* Time passes.
Tick ==
    /\ now < MaxTime
    /\ now' = now + 1
    /\ UNCHANGED <<Activity_Logs, account, nonAccount, req>>

\* Logins, password changes behind auth, and requests through
\* optionalAuth, one at a time, while accounts are administered and time
\* passes.
AuthNext ==
    \/ \E p \in SeqProcs :
          \/ LoginSteps(p)
          \/ AuthFor(p, "PUT /api/users/password") \/ AuthQuery(p)
          \/ OptionalAuth(p) \/ OptionalAuthQuery(p) \/ OptionalNext(p)
          \/ ChangePasswordSteps(p)
          \/ Return(p)
    \/ AdminSetStatus
    \/ AdminDeleteUser
    \/ Tick

AuthSpec == Init /\ [][AuthNext]_vars

\* Logins, password changes and profile updates, one request at a time.
AccountNext ==
    \E p \in SeqProcs :
        \/ LoginSteps(p)
        \/ Auth(p) \/ AuthQuery(p)
        \/ ChangePasswordSteps(p)
        \/ UpdateProfileSteps(p)
        \/ Return(p)

AccountSpec == Init /\ [][AccountNext]_vars

\* ============================================================ By-id reads
\* res.status(404).json({error, message}) of GET /api/meals/:mealId
MealNotFound ==
    [error |-> "Meal not found", message |-> "Meal does not exist or access denied"]

\* res.status(404).json({error, message}) of GET /api/workouts/:workoutId
WorkoutNotFound ==
    [error |-> "Workout not found", message |-> "Workout does not exist or access denied"]

\* JSON_ARRAYAGG over the LEFT JOIN with Meal_Items: one object per item,
\* and one object of NULLs for a meal without items.
FoodItemsAgg(mealId) ==
    LET IsOfMeal(r) == r.MealID = mealId
        rows == SelectSeq(Meal_Items, IsOfMeal)
    IN  IF rows = <<>> THEN <<[quantity |-> NULL, calories |-> NULL]>>
        ELSE [i \in 1..Len(rows) |->
                 [quantity |-> rows[i].Quantity, calories |-> rows[i].Calories]]

\* SELECT ... FROM Meals m LEFT JOIN Meal_Items ... WHERE m.MealID = ? AND
\* m.UserID = ? GROUP BY m.MealID
MealDetails(mealId, userId) ==
    IF mealId \in 1..Len(Meals) /\ Meals[mealId].UserID = userId
    THEN [MealID |-> mealId, meal |-> Meals[mealId], food_items |-> FoodItemsAgg(mealId)]
    ELSE NoItem

\* A read of the workout by its id alone.
WorkoutDetails_AnyOwner(workoutId, userId) ==
    IF workoutId \in 1..Len(Workouts)
    THEN [WorkoutID |-> workoutId, workout |-> Workouts[workoutId]]
    ELSE NoItem

\* SELECT ... FROM Workouts w WHERE w.WorkoutID = ? AND w.UserID = ?
WorkoutDetails(workoutId, userId) ==
    IF workoutId \in 1..Len(Workouts) /\ Workouts[workoutId].UserID = userId
    THEN [WorkoutID |-> workoutId, workout |-> Workouts[workoutId]]
    ELSE NoItem

\* SELECT ... FROM Workout_Exercises we ... WHERE we.WorkoutID = ?
WorkoutExerciseRows(workoutId) ==
    LET IsOfWorkout(r) == r.WorkoutID = workoutId
    IN  SelectSeq(Workout_Exercises, IsOfWorkout)

\* ROUND((Current_Value / Target_Value) * 100, 1) for a positive target and
\* 0 otherwise, in tenths of a percent.
ProgressPercentage(goal) ==
    IF goal.Target_Value > 0
    THEN (2000 * goal.Current_Value + goal.Target_Value) \div (2 * goal.Target_Value)
    ELSE 0

\* SELECT g.*, ... FROM Goals g WHERE g.GoalID = ? AND g.UserID = ?
GoalDetails(goalId, userId) ==
    IF goalId \in 1..Len(Goals) /\ Goals[goalId].UserID = userId
    THEN [GoalID |-> goalId, goal |-> Goals[goalId],
          progress_percentage |-> ProgressPercentage(Goals[goalId])]
    ELSE NoItem

\* SELECT pt.Value, ... FROM Progress_Tracking pt WHERE pt.GoalID = ? AND
\* pt.UserID = ? (the records of one day, in the order of their insertion;
\* LIMIT 20 is above the number of records here).
ProgressHistory(goalId, userId) ==
    LET IsOfGoal(r) == r.GoalID = goalId /\ r.UserID = userId
        rows == SelectSeq(Progress_Tracking, IsOfGoal)
    IN  [i \in 1..Len(rows) |-> rows[i].Value]

\* ------------------------------------------------- GET /api/meals/:mealId
GetMeal(p) ==
    /\ req[p].pc = "idle"
    /\ \E mealId \in 1..(Len(Meals) + 1), userId \in UserIds, ok \in BOOLEAN :
        LET start == [IdleReq EXCEPT !.op = "GET /api/meals/:mealId",
                          !.id = mealId, !.user = userId]
            mealDetails == MealDetails(mealId, userId)
        IN  req' = [req EXCEPT ![p] =
                IF ~ok THEN [start EXCEPT !.pc = "done", !.err = "select", !.out = "500"]
                ELSE IF mealDetails = NoItem
                THEN [start EXCEPT !.pc = "done", !.out = "404", !.body = MealNotFound]
                ELSE [start EXCEPT !.pc = "done", !.out = "200",
                                   !.body = [success |-> TRUE, data |-> mealDetails]]]
    /\ UNCHANGED <<Meals, Meal_Items, nonMeal, Activity_Logs>>

\* ------------------------------------------- GET /api/workouts/:workoutId
\* The ownership-scoped read of the workout.
GetWorkout(p) ==
    /\ req[p].pc = "idle"
    /\ \E workoutId \in 1..(Len(Workouts) + 1), userId \in UserIds, ok \in BOOLEAN :
        LET start == [IdleReq EXCEPT !.op = "GET /api/workouts/:workoutId",
                          !.id = workoutId, !.user = userId]
            workoutDetails == WorkoutDetails(workoutId, userId)
        IN  req' = [req EXCEPT ![p] =
                IF ~ok THEN [start EXCEPT !.pc = "done", !.err = "select", !.out = "500"]
                ELSE IF workoutDetails = NoItem
                THEN [start EXCEPT !.pc = "done", !.out = "404", !.body = WorkoutNotFound]
                ELSE [start EXCEPT !.pc = "gw_exercises", !.row = workoutDetails]]
    /\ UNCHANGED <<Meals, Meal_Items, nonMeal, Activity_Logs>>

\* The read of the workout's exercises and the 200 response.
GetWorkoutExercises(p) ==
    /\ req[p].pc = "gw_exercises"
    /\ \E ok \in BOOLEAN :
        IF ok
        THEN req' = [req EXCEPT ![p].pc = "done", ![p].out = "200",
                        ![p].body = [success |-> TRUE,
                                     data |-> [workout |-> req[p].row,
                                               exercises |-> WorkoutExerciseRows(req[p].id)]]]
        ELSE Respond500(p, "select")
    /\ UNCHANGED <<Meals, Meal_Items, nonMeal, Activity_Logs>>

GetWorkoutSteps(p) ==
    \/ GetWorkout(p)
    \/ GetWorkoutExercises(p)

\* ------------------------------------------------- GET /api/goals/:goalId
\* The ownership-scoped read of the goal.
GetGoal(p) ==
    /\ req[p].pc = "idle"
    /\ \E goalId \in 1..(Len(Goals) + 1), userId \in UserIds, ok \in BOOLEAN :
        LET start == [IdleReq EXCEPT !.op = "GET /api/goals/:goalId",
                          !.id = goalId, !.user = userId]
            goalDetails == GoalDetails(goalId, userId)
        IN  req' = [req EXCEPT ![p] =
                IF ~ok THEN [start EXCEPT !.pc = "done", !.err = "select", !.out = "500"]
                ELSE IF goalDetails = NoItem
                THEN [start EXCEPT !.pc = "done", !.out = "404", !.body = GoalNotFound]
                ELSE [start EXCEPT !.pc = "gg_history", !.row = goalDetails]]
    /\ UNCHANGED <<Meals, Meal_Items, nonMeal, Activity_Logs>>

\* The read of the progress history and the 200 response.
GetGoalHistory(p) ==
    /\ req[p].pc = "gg_history"
    /\ \E ok \in BOOLEAN :
        IF ok
        THEN req' = [req EXCEPT ![p].pc = "done", ![p].out = "200",
                        ![p].body = [success |-> TRUE,
                                     data |-> [goal |-> req[p].row,
                                               progress_history |->
                                                   ProgressHistory(req[p].id, req[p].user)]]]
        ELSE Respond500(p, "select")
    /\ UNCHANGED <<Meals, Meal_Items, nonMeal, Activity_Logs>>

GetGoalSteps(p) ==
    \/ GetGoal(p)
    \/ GetGoalHistory(p)

\* bob has logged a meal and a workout and created a goal, all some time
\* ago; alice has none.
ByIdInit ==
    /\ Meals = <<NewMealRow(2)>>
    /\ Meal_Items = <<>>
    /\ Workouts = <<NewWorkoutRow(2)>>
    /\ Workout_Exercises = <<>>
    /\ Goals = <<NewGoalRow(2, "Weight Loss", 2)>>
    /\ Progress_Tracking = <<>>
    /\ now = 2
    /\ Activity_Logs = <<[UserID |-> 2, Activity_Type |-> "Meal_Log"],
                         [UserID |-> 2, Activity_Type |-> "Workout_Log"],
                         [UserID |-> 2, Activity_Type |-> "Goal_Update"]>>
    /\ AccountInit
    /\ db = DbInit
    /\ req = [p \in Procs |-> IdleReq]

\* Requests by id of either user, one at a time.
ByIdNext ==
    \E p \in SeqProcs :
        \/ GetMeal(p)
        \/ GetWorkoutSteps(p)
        \/ GetGoalSteps(p)
        \/ GoalProgressSteps(p)
        \/ GoalStatusSteps(p)
        \/ Return(p)

ByIdSpec == ByIdInit /\ [][ByIdNext]_vars

\* ============================================================ Store module
MaxCalls == 3          \* calls of query

\* A pool handle that stays unset until the initialization has finished.
PoolUnset_UntilInitialized(d) == d.load # "done"

\* !pool
PoolUnset(d) == d.pool = 0

\* pool = new Pool({...}): a fresh pool, and the handle names it.
NewPool(d) == [d EXCEPT !.pool = d.created + 1, !.created = d.created + 1]

\* const client = await pool.connect(): a connection of the pool that the
\* handle names is checked out by the initialization or by the query of p.
PoolConnect(d, by, p) ==
    [d EXCEPT !.clients = @ \cup {[by |-> by, p |-> p, pool |-> d.pool]}]

\* A release that returns nothing to the pool.
ClientRelease_Kept(d, by, p) == d

\* client.release()
ClientRelease(d, by, p) ==
    [d EXCEPT !.clients = {c \in @ : ~(c.by = by /\ c.p = p)}]

\* initializeDatabase().catch(console.error) at module load, up to its
\* first await: the pool is constructed, or new Pool throws and the
\* rejection is logged.
LoadModule ==
    /\ db.load = "unloaded"
    /\ \E ok \in BOOLEAN :
        db' = IF ok THEN [NewPool(db) EXCEPT !.load = "connect"]
              ELSE [db EXCEPT !.load = "failed"]
    /\ UNCHANGED <<Meals, Meal_Items, Workouts, Workout_Exercises, Goals,
                   Progress_Tracking, account, now, Activity_Logs, req>>

\* The initialization's await pool.connect().
LoadConnect ==
    /\ db.load = "connect"
    /\ \E ok \in BOOLEAN :
        db' = IF ok THEN [PoolConnect(db, "init", 0) EXCEPT !.load = "test"]
              ELSE [db EXCEPT !.load = "failed"]
    /\ UNCHANGED <<Meals, Meal_Items, Workouts, Workout_Exercises, Goals,
                   Progress_Tracking, account, now, Activity_Logs, req>>

\* The initialization's await client.query('SELECT NOW()') and, after it,
\* client.release(); a rejected test statement goes to the catch, past the
\* release.
LoadTest ==
    /\ db.load = "test"
    /\ \E ok \in BOOLEAN :
        db' = IF ok THEN [ClientRelease(db, "init", 0) EXCEPT !.load = "done"]
              ELSE [db EXCEPT !.load = "failed"]
    /\ UNCHANGED <<Meals, Meal_Items, Workouts, Workout_Exercises, Goals,
                   Progress_Tracking, account, now, Activity_Logs, req>>

\* query(text, params) up to its first await. With the pool unset it calls
\* initializeDatabase, which constructs the pool before it awaits; a throw
\* of new Pool passes both catches and rejects the call.
Query(p) ==
    /\ req[p].pc = "idle"
    /\ db.load # "unloaded"
    /\ db.calls < MaxCalls
    /\ LET start == [IdleReq EXCEPT !.op = "query"]
           called == [db EXCEPT !.calls = @ + 1]
       IN  IF PoolUnset(db)
           THEN \E ok \in BOOLEAN :
                   IF ok
                   THEN /\ db' = NewPool(called)
                        /\ req' = [req EXCEPT ![p] = [start EXCEPT !.pc = "qi_connect"]]
                   ELSE /\ db' = called
                        /\ req' = [req EXCEPT ![p] =
                                [start EXCEPT !.pc = "done", !.err = "new Pool",
                                              !.out = "error"]]
           ELSE /\ db' = called
                /\ req' = [req EXCEPT ![p] = [start EXCEPT !.pc = "q_connect"]]
    /\ UNCHANGED <<Meals, Meal_Items, Workouts, Workout_Exercises, Goals,
                   Progress_Tracking, account, now, Activity_Logs>>

\* initializeDatabase inside query: await pool.connect().
QueryInitConnect(p) ==
    /\ req[p].pc = "qi_connect"
    /\ \E ok \in BOOLEAN :
        IF ok
        THEN /\ db' = PoolConnect(db, "init", p)
             /\ req' = [req EXCEPT ![p].pc = "qi_test"]
        ELSE /\ UNCHANGED db
             /\ req' = [req EXCEPT ![p].pc = "done", ![p].err = "connect",
                                   ![p].out = "error"]
    /\ UNCHANGED <<Meals, Meal_Items, Workouts, Workout_Exercises, Goals,
                   Progress_Tracking, account, now, Activity_Logs>>

\* initializeDatabase inside query: the test statement, then the release.
QueryInitTest(p) ==
    /\ req[p].pc = "qi_test"
    /\ \E ok \in BOOLEAN :
        IF ok
        THEN /\ db' = ClientRelease(db, "init", p)
             /\ req' = [req EXCEPT ![p].pc = "q_connect"]
        ELSE /\ UNCHANGED db
             /\ req' = [req EXCEPT ![p].pc = "done", ![p].err = "test",
                                   ![p].out = "error"]
    /\ UNCHANGED <<Meals, Meal_Items, Workouts, Workout_Exercises, Goals,
                   Progress_Tracking, account, now, Activity_Logs>>

\* const client = await pool.connect() of query: n counts the connections
\* the call has borrowed and id is the pool it borrowed from.
QueryConnect(p) ==
    /\ req[p].pc = "q_connect"
    /\ \E ok \in BOOLEAN :
        IF ok
        THEN /\ db' = PoolConnect(db, "query", p)
             /\ req' = [req EXCEPT ![p].pc = "q_query", ![p].n = @ + 1,
                                   ![p].id = db.pool]
        ELSE /\ UNCHANGED db
             /\ req' = [req EXCEPT ![p].pc = "done", ![p].err = "connect",
                                   ![p].out = "error"]
    /\ UNCHANGED <<Meals, Meal_Items, Workouts, Workout_Exercises, Goals,
                   Progress_Tracking, account, now, Activity_Logs>>

\* await client.query(text, params) and the finally: the release runs
\* whether the statement returned rows or threw; mark counts the releases.
QueryRun(p) ==
    /\ req[p].pc = "q_query"
    /\ db' = ClientRelease(db, "query", p)
    /\ \E ok \in BOOLEAN :
        req' = [req EXCEPT ![p].pc = "done", ![p].mark = @ + 1,
                           ![p].err = IF ok THEN "none" ELSE "statement",
                           ![p].out = IF ok THEN "rows" ELSE "error"]
    /\ UNCHANGED <<Meals, Meal_Items, Workouts, Workout_Exercises, Goals,
                   Progress_Tracking, account, now, Activity_Logs>>

QuerySteps(p) ==
    \/ Query(p)
    \/ QueryInitConnect(p)
    \/ QueryInitTest(p)
    \/ QueryConnect(p)
    \/ QueryRun(p)

\* The process starts with the store module not yet loaded.
PoolInit ==
    /\ Meals = <<>>
    /\ Meal_Items = <<>>
    /\ Workouts = <<>>
    /\ Workout_Exercises = <<>>
    /\ Goals = <<>>
    /\ Progress_Tracking = <<>>
    /\ now = 1
    /\ Activity_Logs = <<>>
    /\ Users = RegisteredUsers
    /\ User_Profiles = [u \in UserIds |-> NewProfileRow(u)]
    /\ User_Preferences = [u \in UserIds |-> NewPreferencesRow(u)]
    /\ tokens = {}
    /\ db = DbUnloaded
    /\ req = [p \in Procs |-> IdleReq]

\* Module load, its initialization, and query calls of two tasks.
PoolNext ==
    \/ LoadModule
    \/ LoadConnect
    \/ LoadTest
    \/ \E p \in Procs : QuerySteps(p) \/ Return(p)

PoolSpec == PoolInit /\ [][PoolNext]_vars

\* ================================================================= claims
AddedFoodItem(p) ==
    req[p].pc = "done" /\ req[p].op = "Meal.addFoodItem" /\ req[p].out = "ok"

PostedMealWithItems(p) ==
    /\ req[p].pc = "done" /\ req[p].op = "POST /api/meals" /\ req[p].out = "201"
    /\ ItemsOf(req[p].id) # {}

AddedExercise(p) ==
    req[p].pc = "done" /\ req[p].op = "Workout.addExercise" /\ req[p].out = "ok"

PostedWorkoutWithExercises(p) ==
    /\ req[p].pc = "done" /\ req[p].op = "POST /api/workouts" /\ req[p].out = "201"
    /\ ExercisesOf(req[p].id) # {}

\* C1: with one request at a time, when Meal.addFoodItem has returned, or
\* POST /api/meals has answered 201 after inserting items, each of the four
\* totals of the meal's row equals the sum of that contribution over all of
\* the meal's items, on the stored-routine path and on the fallback path.
C1_MealTotalsEqualItemSums ==
    \A p \in Procs :
        (AddedFoodItem(p) \/ PostedMealWithItems(p))
            => MealTotalsOf(Meals[req[p].id]) = MealItemSums(ItemsOf(req[p].id))

\* An item was added on the fallback path to a meal that had one already.
C1_Witness ==
    \E p \in Procs :
        /\ AddedFoodItem(p) /\ req[p].err = "procedure"
        /\ Cardinality(ItemsOf(req[p].id)) >= 2
        /\ Meals[req[p].id].Total_Fat > 0
        /\ Meals[req[p].id].Total_Carbs > 0

\* C2: with one request at a time, when Workout.addExercise has returned, or
\* POST /api/workouts has answered 201 after inserting exercises, the
\* workout's total duration is the sum of its exercises' durations, its
\* total calories burned the sum of their calories, and its max heart rate
\* the maximum of their heart-rate values.
C2_WorkoutTotalsEqualReduction ==
    \A p \in Procs :
        (AddedExercise(p) \/ PostedWorkoutWithExercises(p))
            => LET w == Workouts[req[p].id]
                   r == WorkoutReduction(ExercisesOf(req[p].id))
               IN  /\ w.Total_Duration = r.Total_Duration
                   /\ w.Total_Calories_Burned = r.Total_Calories_Burned
                   /\ w.Max_Heart_Rate = r.Max_Heart_Rate

\* An exercise was added on the fallback path to a workout whose exercises
\* now have two different heart rates, and a duration.
C2_Witness ==
    \E p \in Procs :
        /\ AddedExercise(p) /\ req[p].err = "procedure"
        /\ \E i, j \in ExercisesOf(req[p].id) :
              /\ Workout_Exercises[i].Heart_Rate_Avg = 120
              /\ Workout_Exercises[j].Heart_Rate_Avg = 90
              /\ i < j
        /\ Workouts[req[p].id].Total_Duration > 0
        /\ Workouts[req[p].id].Total_Calories_Burned > 0

ZeroWorkoutTotals ==
    [Total_Duration |-> 0, Total_Calories_Burned |-> 0,
     Average_Heart_Rate |-> ZeroRat, Max_Heart_Rate |-> 0]

\* C3: a workout that has no exercises has all four derived totals equal
\* to zero, never NULL: as created, and as recomputed over no exercise.
C3_NoExercisesZeroTotals ==
    \A w \in 1..Len(Workouts) :
        ExercisesOf(w) = {} => WorkoutTotalsOf(Workouts[w]) = ZeroWorkoutTotals

\* POST /api/workouts answered 201 after skipping every entry of its list
\* and recomputing the totals on the fallback path.
C3_Witness ==
    \E p \in Procs :
        /\ req[p].pc = "done" /\ req[p].op = "POST /api/workouts" /\ req[p].out = "201"
        /\ req[p].err = "procedure"
        /\ ExercisesOf(req[p].id) = {}

\* C4: after a recomputation the workout's average heart rate is the mean
\* over the exercises that have a heart-rate value (the others are in
\* neither the sum nor the count), and zero when none has a value.
C4_AverageOverValuesOnly ==
    \A p \in Procs :
        (AddedExercise(p) \/ PostedWorkoutWithExercises(p))
            => Workouts[req[p].id].Average_Heart_Rate
                   = WorkoutReduction(ExercisesOf(req[p].id)).Average_Heart_Rate

\* The fallback path recomputed a workout that has an exercise with a heart
\* rate and one without.
C4_Witness ==
    \E p \in Procs :
        /\ AddedExercise(p) /\ req[p].err = "procedure"
        /\ \E i, j \in ExercisesOf(req[p].id) :
              /\ Workout_Exercises[i].Heart_Rate_Avg = NULL
              /\ Workout_Exercises[j].Heart_Rate_Avg = 90
        /\ Workouts[req[p].id].Average_Heart_Rate = Rat(90, 1)

AllDone == \A p \in Procs : req[p].pc = "done"

\* C5: two concurrent item-additions to one aggregate can lose an update,
\* and that is all they can do: once both requests have returned without
\* error the stored totals are the reduction over a prefix, in insertion
\* order, of the aggregate's items (the whole of it, or a stale part).
C5_TotalsAreOfAPrefix ==
    AllDone =>
        /\ (/\ \E p \in Procs : req[p].op = "Meal.addFoodItem"
            /\ \A p \in Procs : req[p].op = "Meal.addFoodItem" => req[p].out = "ok")
              => \E k \in 1..Len(Meal_Items) :
                    MealTotalsOf(Meals[1]) = MealItemSums(ItemsOf(1) \cap 1..k)
        /\ (/\ \E p \in Procs : req[p].op = "Workout.addExercise"
            /\ \A p \in Procs : req[p].op = "Workout.addExercise" => req[p].out = "ok")
              => \E k \in 1..Len(Workout_Exercises) :
                    WorkoutTotalsOf(Workouts[1]) = WorkoutReduction(ExercisesOf(1) \cap 1..k)

\* Both Meal.addFoodItem calls took the fallback path and returned true,
\* and the meal's totals are not the sums over its two items.
C5_LostUpdate ==
    /\ \A p \in Procs : AddedFoodItem(p) /\ req[p].err = "procedure"
    /\ Cardinality(ItemsOf(1)) = 2
    /\ MealTotalsOf(Meals[1]) # MealItemSums(ItemsOf(1))

\* The same for two Workout.addExercise calls.
WorkoutLostUpdate ==
    /\ \A p \in Procs : AddedExercise(p) /\ req[p].err = "procedure"
    /\ Cardinality(ExercisesOf(1)) = 2
    /\ WorkoutTotalsOf(Workouts[1]) # WorkoutReduction(ExercisesOf(1))

\* C6: in updateTotals a failed stored-routine call is absorbed (the call
\* that reports success may have seen that failure and no other), while a
\* failed fallback read, fallback write or refresh reaches the caller as
\* an error.
C6_OnlyRoutineFailureAbsorbed ==
    \A p \in Procs :
        /\ req[p].err = "procedure"
              => req[p].pc \in {"ut_read", "ut_write", "ut_refresh",
                                "wt_read", "wt_write", "wt_refresh", "done"}
        /\ (req[p].pc = "done" /\ req[p].op \in {"Meal.addFoodItem", "Workout.addExercise"})
              => /\ req[p].out = "ok" => req[p].err \in {"none", "procedure"}
                 /\ req[p].err \in {"read", "write", "refresh"} => req[p].out = "throw"

\* One call returned true after its stored-routine call failed, another
\* threw because its fallback write failed.
C6_Witness ==
    \E p, q \in Procs :
        /\ req[p].pc = "done" /\ req[p].out = "ok" /\ req[p].err = "procedure"
        /\ req[q].pc = "done" /\ req[q].out = "throw" /\ req[q].err = "write"

\* ------------------------------------------------------------ goal claims
\* The step in which progress request p's update of goal g takes effect:
\* the stored routine's run, or the fallback's UPDATE.
ProgressApplied(p, g) ==
    /\ req[p].op = "PUT /api/goals/:goalId/progress"
    /\ req[p].id = g
    /\ req[p].pc \in {"gp_call", "gp_update"}
    /\ req'[p].pc \in {"gp_log", "gp_track"}

\* C7: on an Active Weight Loss goal that was never completed, a progress
\* update with a value above the target leaves the goal Active with no
\* completed date, and one with a value at or below the target makes it
\* Completed and sets the completed date.
C7_WeightLossCompletion ==
    [][\A p \in Procs : \A g \in 1..Len(Goals) :
          (/\ ProgressApplied(p, g)
           /\ Goals[g].Goal_Type = "Weight Loss"
           /\ Goals[g].Status = "Active"
           /\ Goals[g].Completed_Date = NULL)
          => IF req[p].value > Goals[g].Target_Value
             THEN Goals'[g].Status = "Active" /\ Goals'[g].Completed_Date = NULL
             ELSE Goals'[g].Status = "Completed" /\ Goals'[g].Completed_Date # NULL]_vars

\* Three progress updates of a Weight Loss goal, two above the target and
\* the third below it, all on the fallback path: the goal is Completed and
\* has no completed date.
C7_CompletedWithoutDate ==
    /\ Goals[1].Goal_Type = "Weight Loss"
    /\ Len(Progress_Tracking) = 3
    /\ \A i \in 1..2 : Progress_Tracking[i].Value > Goals[1].Target_Value
    /\ Progress_Tracking[3].Value < Goals[1].Target_Value
    /\ Goals[1].Status = "Completed"
    /\ Goals[1].Completed_Date = NULL

\* C8: over progress and status updates, a goal's completed date is set by
\* the first transition into Completed, changes in no other step, and once
\* set is never changed again.
C8_CompletedDateStampedOnce ==
    [][\A g \in 1..Len(Goals) :
          /\ (/\ Goals[g].Status # "Completed"
              /\ Goals'[g].Status = "Completed"
              /\ Goals[g].Completed_Date = NULL)
             => Goals'[g].Completed_Date # NULL
          /\ Goals'[g].Completed_Date # Goals[g].Completed_Date
             => Goals[g].Status # "Completed" /\ Goals'[g].Status = "Completed"
          /\ Goals[g].Completed_Date # NULL
             => Goals'[g].Completed_Date = Goals[g].Completed_Date]_vars

\* A status update has moved the goal, until then Active, to Completed,
\* and the goal has no completed date.
C8_StatusCompletedWithoutDate ==
    \E p \in Procs :
        /\ req[p].op = "PUT /api/goals/:goalId/status"
        /\ req[p].pc = "gs_log"
        /\ now = 2
        /\ Goals[req[p].id].Status = "Completed"
        /\ Goals[req[p].id].Completed_Date = NULL

\* C9: a progress update of an Active goal leaves it Completed exactly when
\* the goal is a Weight Loss goal and the value is at most the target, or
\* is a Weight Gain, Muscle Gain, Strength or Endurance goal and the value
\* is at least the target, and leaves it Active otherwise; a goal of any
\* other type is never moved to Completed by a progress update.
C9_CompletedIffTargetCrossed ==
    [][\A p \in Procs : \A g \in 1..Len(Goals) :
          ProgressApplied(p, g)
          => LET type == Goals[g].Goal_Type
                 v == req[p].value
                 t == Goals[g].Target_Value
                 increasing == {"Weight Gain", "Muscle Gain", "Strength", "Endurance"}
             IN  /\ Goals[g].Status = "Active"
                    => /\ Goals'[g].Status \in {"Active", "Completed"}
                       /\ Goals'[g].Status = "Completed"
                            <=> \/ type = "Weight Loss" /\ v <= t
                                \/ type \in increasing /\ v >= t
                 /\ (type # "Weight Loss" /\ type \notin increasing)
                    => (Goals'[g].Status = "Completed" => Goals[g].Status = "Completed")
         ]_vars

\* The first update of the store is the fallback's, of a Strength goal,
\* with a value equal to the target: the goal is Completed.
C9_Witness ==
    \E p \in Procs :
        /\ req[p].op = "PUT /api/goals/:goalId/progress"
        /\ req[p].pc = "gp_track"
        /\ now = 2
        /\ Goals[req[p].id].Goal_Type = "Strength"
        /\ req[p].value = Goals[req[p].id].Target_Value
        /\ Goals[req[p].id].Status = "Completed"

\* C10: a progress update that responds 200 has appended exactly one
\* Progress_Tracking record, with the request's user, goal and value, on
\* the stored-routine path and on the fallback path alike; and no step
\* changes or removes a record.
C10_OneProgressRecordPerSuccess ==
    /\ [](\A p \in Procs :
            (/\ req[p].op = "PUT /api/goals/:goalId/progress"
             /\ req[p].pc = "done"
             /\ req[p].out = "200")
            => /\ Len(Progress_Tracking) = req[p].mark + 1
               /\ Progress_Tracking[Len(Progress_Tracking)] =
                    [UserID |-> req[p].user, GoalID |-> req[p].id, Value |-> req[p].value])
    /\ [][/\ Len(Progress_Tracking') >= Len(Progress_Tracking)
          /\ SubSeq(Progress_Tracking', 1, Len(Progress_Tracking)) = Progress_Tracking]_vars

\* A progress update on the fallback path responded 200 after an earlier
\* one, on the stored-routine path, had left its record.
C10_Witness ==
    \E p \in Procs :
        /\ req[p].op = "PUT /api/goals/:goalId/progress"
        /\ req[p].pc = "done"
        /\ req[p].out = "200"
        /\ req[p].err = "procedure"
        /\ Len(Progress_Tracking) = 2
        /\ now = 3
        /\ Progress_Tracking[1].Value # Progress_Tracking[2].Value

\* ------------------------------------------------------- goal-limit claim
\* The number of Active goals a user owns.
ActiveGoalsOf(userId) ==
    Cardinality({g \in 1..Len(Goals) :
                    Goals[g].UserID = userId /\ Goals[g].Status = "Active"})

\* C11: a goal creation by a user with 10 or more Active goals is rejected
\* with the 400 that cites the goal limit and adds no Goals row; a creation
\* is rejected so only then, and one that responds 201 has added exactly
\* one row, for a user who had fewer than 10 Active goals (as after one of
\* ten was moved to Paused).
C11_ActiveGoalLimit ==
    /\ [](\A p \in Procs :
            (req[p].op = "POST /api/goals" /\ req[p].pc = "done")
            => /\ req[p].err = "Goal limit exceeded"
                    => /\ req[p].out = "400"
                       /\ Goals = SubSeq(Goals, 1, req[p].mark)
                       /\ ActiveGoalsOf(req[p].user) >= 10
               /\ req[p].out = "201"
                    => /\ Len(Goals) = req[p].mark + 1
                       /\ Goals[Len(Goals)].UserID = req[p].user
                       /\ ActiveGoalsOf(req[p].user) <= 10)
    /\ [][\A p \in Procs :
            (req[p].pc = "idle" /\ req'[p].op = "POST /api/goals")
            => /\ ActiveGoalsOf(req'[p].user) >= 10
                    => req'[p].pc = "done" /\ req'[p].out \in {"400", "500"}
               /\ req'[p].err = "Goal limit exceeded"
                    => ActiveGoalsOf(req'[p].user) >= 10]_vars

\* User 1, who began with ten Active goals, has created an eleventh after
\* one of the ten was moved to Paused.
C11_Witness ==
    \E p \in Procs :
        /\ req[p].op = "POST /api/goals"
        /\ req[p].pc = "done"
        /\ req[p].out = "201"
        /\ req[p].user = 1
        /\ Len(Goals) = 11
        /\ \E g \in 1..10 : Goals[g].Status = "Paused"
        /\ \A g \in 1..11 : Goals[g].UserID = 1
        /\ ActiveGoalsOf(1) = 10

\* User 1 has ten Active goals and a creation was rejected for the limit.
C11_Rejected ==
    \E p \in Procs :
        /\ req[p].op = "POST /api/goals"
        /\ req[p].pc = "done"
        /\ req[p].err = "Goal limit exceeded"
        /\ Len(Goals) = 10

\* ------------------------------------------------------------ gate claims
\* The pcs of a request whose route handler is running or has run.
HandlerPcs ==
    {"cp_compare", "cp_update", "cp_log",
     "up_profile", "up_preferences", "up_bmr", "up_log"}

\* C12: auth calls next, and the handler runs, only for a request that
\* brought a token the application signed and that had not expired when it
\* was verified, whose user the store returned with status Active; the
\* identity attached is that row's {userId, username, email}.  A request
\* that ends without next has a response, and its handler has not run.
C12_GateLetsOnlyVerifiedActiveUsersThrough ==
    /\ [](\A p \in Procs : req[p].op \in ProtectedOps =>
            /\ req[p].pc \in HandlerPcs \cup {"next"}
                  => req[p].nextCalls = 1 /\ req[p].identity # NoItem
            /\ req[p].nextCalls = 0
                  => /\ req[p].pc \in {"auth_query", "done"}
                     /\ req[p].identity = NoItem
                     /\ req[p].pc = "done" => req[p].out \in {"401", "500"})
    /\ [][\A p \in Procs : req'[p].op \in ProtectedOps =>
            /\ (req[p].pc = "idle" /\ req'[p].pc = "auth_query")
                  => /\ req'[p].header.kind = "signed"
                     /\ req'[p].header.token \in tokens
                     /\ now < req'[p].header.token.exp
            /\ req'[p].nextCalls # req[p].nextCalls
                  => LET u == req[p].header.token.userId
                     IN  /\ req[p].pc = "auth_query"
                         /\ u \in 1..Len(Users) /\ Users[u] # NoItem
                         /\ Users[u].Account_Status = "Active"
                         /\ req'[p].identity =
                               [userId |-> u, username |-> Users[u].Username,
                                email |-> Users[u].Email]
                         /\ req'[p].out = "none"]_vars

\* auth has called next for a password change, with alice's identity.
C12_Witness ==
    \E p \in Procs :
        /\ req[p].op = "PUT /api/users/password"
        /\ req[p].pc = "next"
        /\ req[p].nextCalls = 1
        /\ req[p].identity = [userId |-> 1, username |-> "alice", email |-> "alice@x.io"]

\* The step in which auth answers request p itself.
GateResponds(p) ==
    /\ req'[p].op \in ProtectedOps
    /\ req[p].pc \in {"idle", "auth_query"}
    /\ req'[p].pc = "done"

\* C13: auth answers 401 in each case of failed authentication, and the
\* body tells the cases apart: no header, an expired token, a malformed or
\* badly signed token, a user that is not found, an account that is not
\* Active (the user lookup answering); an expired token is not reported as
\* invalid, nor an invalid one as expired.
C13_GateFailuresDistinguishable ==
    [][\A p \in Procs : GateResponds(p) =>
          LET h == req'[p].header
              code == req'[p].out
              b == req'[p].body
              u == h.token.userId
              found == u \in 1..Len(Users) /\ Users[u] # NoItem
          IN  /\ h.kind = "none"
                    => code = "401" /\ b.message = "No token provided"
              /\ h.kind \in {"malformed", "badsig"}
                    => code = "401" /\ b.error = "Invalid token"
              /\ (h.kind = "signed" /\ req[p].pc = "idle")
                    => now >= h.token.exp /\ code = "401" /\ b.error = "Token expired"
              /\ (req[p].pc = "auth_query" /\ code # "500")
                    => /\ code = "401"
                       /\ ~found => b.message = "User not found"
                       /\ found => /\ Users[u].Account_Status # "Active"
                                   /\ b.message = "Account suspended or inactive"
              /\ code = "401"
                    => /\ b.message = "No token provided" => h.kind = "none"
                       /\ b.error = "Token expired"
                            => h.kind = "signed" /\ now >= h.token.exp
                       /\ b.error = "Invalid token" => h.kind \in {"malformed", "badsig"}
                       /\ b.message = "User not found" => h.kind = "signed" /\ ~found
                       /\ b.message = "Account suspended or inactive"
                            => h.kind = "signed" /\ found]_vars

\* auth has answered a token of alice's, signed and past its expiry, with
\* "Token expired".
C13_Witness ==
    \E p \in Procs :
        /\ req[p].op \in ProtectedOps
        /\ req[p].pc = "done"
        /\ req[p].out = "401"
        /\ req[p].body.error = "Token expired"
        /\ req[p].header.kind = "signed"

\* C14: a request with a token that was issued at a login, is correctly
\* signed and has not expired, for a user whose status has since become
\* other than Active, never passes auth: the token is not answered as
\* expired, and the user lookup, when the store answers it, ends the
\* request with the 401 of the inactive account.
C14_DeactivatedAccountRejected ==
    [][\A p \in Procs : req'[p].op \in ProtectedOps =>
          /\ (/\ req[p].pc = "idle"
              /\ req'[p].header.kind = "signed"
              /\ now < req'[p].header.token.exp)
             => req'[p].pc = "auth_query"
          /\ (/\ req[p].pc = "auth_query"
              /\ req'[p].pc # "auth_query"
              /\ UserFound(req[p].decoded.userId)
              /\ Users[req[p].decoded.userId].Account_Status # "Active")
             => /\ req'[p].pc = "done"
                /\ req'[p].nextCalls = 0
                /\ req'[p].out \in {"401", "500"}
                /\ req'[p].out = "401"
                     => req'[p].body = [error |-> "Access denied",
                                        message |-> "Account suspended or inactive"]]_vars

\* alice logged in, her account was suspended, and her unexpired token has
\* been answered with the 401 of the inactive account.
C14_Witness ==
    \E p \in Procs :
        /\ req[p].op \in ProtectedOps
        /\ req[p].pc = "done"
        /\ req[p].out = "401"
        /\ req[p].body.message = "Account suspended or inactive"
        /\ req[p].header.token \in tokens
        /\ now < req[p].header.token.exp
        /\ Users[1].Last_Login # NULL
        /\ Users[1].Account_Status = "Suspended"

\* C15: optionalAuth sends no response and calls next exactly once on every
\* path, and req.user is an identity only when the token verified and the
\* store returned the user it names with status Active; it is null on
\* every other path.
C15_OptionalGateNeverRejects ==
    /\ [](\A p \in Procs : req[p].op = "optionalAuth" =>
            /\ req[p].out = "none" /\ req[p].body = NoItem
            /\ req[p].pc \in {"oa_query", "next", "done"}
            /\ req[p].nextCalls = IF req[p].pc = "oa_query" THEN 0 ELSE 1
            /\ req[p].pc = "oa_query"
                  => req[p].header.kind = "signed" /\ req[p].identity = NoItem)
    /\ [][\A p \in Procs :
            (req'[p].op = "optionalAuth" /\ req'[p].nextCalls # req[p].nextCalls)
            => \/ req'[p].identity = NoItem
               \/ LET u == req[p].decoded.userId
                  IN  /\ req[p].pc = "oa_query"
                      /\ u \in 1..Len(Users) /\ Users[u] # NoItem
                      /\ Users[u].Account_Status = "Active"
                      /\ req'[p].identity =
                            [userId |-> u, username |-> Users[u].Username,
                             email |-> Users[u].Email]]_vars

\* optionalAuth has called next with req.user null for a token of alice's
\* that verified, her account being suspended.
C15_Witness ==
    \E p \in Procs :
        /\ req[p].op = "optionalAuth"
        /\ req[p].pc = "next"
        /\ req[p].header.kind = "signed"
        /\ req[p].decoded # NoItem
        /\ req[p].identity = NoItem
        /\ Users[1] # NoItem
        /\ Users[1].Account_Status = "Suspended"

\* optionalAuth has called next with alice's identity.
C15_Identified ==
    \E p \in Procs :
        /\ req[p].op = "optionalAuth"
        /\ req[p].pc = "next"
        /\ req[p].identity # NoItem

\* ---------------------------------------------------- registration claims
\* The rows of a table that belong to a user.
RowsOf(table, userId) == {i \in 1..Len(table) : table[i].UserID = userId}

\* C16: a registration whose email or username is that of an existing user
\* is answered 409 and has added no Users, User_Profiles, User_Preferences
\* or Activity_Logs row; no registration inserts a user whose email or
\* username an existing user has.
C16_DuplicateRegistrationConflicts ==
    /\ [](\A p \in Procs :
            (req[p].op = "POST /api/auth/register" /\ req[p].out = "409")
            => /\ \E u \in 1..Len(Users) :
                     \/ Users[u].Email = req[p].item.email
                     \/ Users[u].Username = req[p].item.username
               /\ req[p].mark = <<Len(Users), Len(User_Profiles), Len(User_Preferences),
                                  Len(Activity_Logs)>>
               /\ req[p].body = [error |-> "User exists",
                        message |-> "User with this email or username already exists"])
    /\ [][\A p \in Procs :
            /\ (req'[p].op = "POST /api/auth/register" /\ req[p].pc = "idle"
                /\ req'[p].pc = "rg_user")
               => \A u \in 1..Len(Users) :
                     /\ Users[u].Email # req'[p].item.email
                     /\ Users[u].Username # req'[p].item.username
            /\ (req'[p].op = "POST /api/auth/register" /\ req'[p].out = "409")
               => UNCHANGED <<Users, User_Profiles, User_Preferences, Activity_Logs,
                              tokens>>]_vars

\* carol has registered, and a registration as dave with carol's email was
\* answered 409 with the store as carol's registration left it.
C16_Witness ==
    \E p \in Procs :
        /\ req[p].op = "POST /api/auth/register"
        /\ req[p].pc = "done"
        /\ req[p].out = "409"
        /\ req[p].item.email = "carol@x.io"
        /\ req[p].item.username = "dave"
        /\ Len(Users) = 3
        /\ Users[3].Username = "carol"
        /\ Len(User_Profiles) = 3 /\ Len(User_Preferences) = 3
        /\ Len(Activity_Logs) = 1

\* C17: a registration whose profile, preferences or audit insert fails
\* after the Users row was inserted is answered once, with a 500 that
\* carries no token, and the rows inserted before the failure stay; a 201
\* with a token is sent only when the Users, User_Profiles and
\* User_Preferences rows were all inserted.
C17_RegistrationFailsAfterUserInsert ==
    /\ [](\A p \in Procs :
            (req[p].op = "POST /api/auth/register" /\ req[p].pc = "done")
            => /\ req[p].err \in {"profile", "preferences", "log"}
                    => /\ req[p].out = "500"
                       /\ req[p].body = NoItem
                       /\ \A t \in tokens : t.userId # req[p].id
                       /\ Len(Users) = req[p].mark[1] + 1
                       /\ Users[req[p].id].Email = req[p].item.email
                       /\ Cardinality(RowsOf(User_Profiles, req[p].id))
                             = IF req[p].err = "profile" THEN 0 ELSE 1
                       /\ Cardinality(RowsOf(User_Preferences, req[p].id))
                             = IF req[p].err = "log" THEN 1 ELSE 0
                       /\ Len(Activity_Logs) = req[p].mark[4]
               /\ req[p].out = "201"
                    => /\ req[p].err = "none"
                       /\ req[p].body.token \in tokens
                       /\ req[p].body.token.userId = req[p].id
                       /\ Users[req[p].id].Email = req[p].item.email
                       /\ Cardinality(RowsOf(User_Profiles, req[p].id)) = 1
                       /\ Cardinality(RowsOf(User_Preferences, req[p].id)) = 1)
    /\ [][\A p \in Procs :
            (req[p].op = "POST /api/auth/register" /\ req[p].out # "none"
                /\ req'[p].pc # "idle")
            => req'[p].out = req[p].out /\ req'[p].body = req[p].body]_vars

\* A registration was answered 500 because its preferences insert failed:
\* the Users and User_Profiles rows it inserted are in the store.
C17_Witness ==
    \E p \in Procs :
        /\ req[p].op = "POST /api/auth/register"
        /\ req[p].pc = "done"
        /\ req[p].err = "preferences"
        /\ req[p].out = "500"
        /\ Len(Users) = 3 /\ Len(User_Profiles) = 3 /\ Len(User_Preferences) = 2

\* --------------------------------------------------- password-change claim
\* C18: the stored hash of a user changes only in the UPDATE of a password
\* change by that user whose current password verifies against the stored
\* hash and whose new password has at least 6 characters, and becomes a
\* hash of the new password; a request with a missing field, a short new
\* password, a wrong current password or an unknown user is rejected and
\* leaves the Users table as it was.
C18_PasswordChangedOnlyWhenVerified ==
    /\ [][\A u \in 1..Len(Users) :
            (/\ Users[u] # NoItem /\ Users'[u] # NoItem
             /\ Users'[u].Password_Hash # Users[u].Password_Hash)
            => \E p \in Procs :
                  LET old == Users[u].Password_Hash
                      new == Users'[u].Password_Hash
                  IN  /\ req[p].op = "PUT /api/users/password"
                      /\ req[p].pc = "cp_update"
                      /\ req[p].identity.userId = u
                      /\ old.digest = <<old.salt, req[p].item.currentPassword>>
                      /\ Len(req[p].item.newPassword) >= 6
                      /\ new.digest = <<new.salt, req[p].item.newPassword>>]_vars
    /\ [][\A p \in Procs :
            (req[p].op = "PUT /api/users/password" /\ req[p].pc \in {"next", "cp_compare"})
            => LET body == req[p].item
                   u == req[p].identity.userId
                   stored == Users[u].Password_Hash
               IN  /\ (req[p].pc = "next" /\ req'[p].pc # "next")
                        => IF body.currentPassword = "" \/ body.newPassword = ""
                              \/ Len(body.newPassword) < 6
                           THEN req'[p].out = "400"
                           ELSE Users[u] = NoItem => req'[p].out \in {"404", "500"}
                   /\ (req[p].pc = "cp_compare" /\ req'[p].pc # "cp_compare"
                        /\ Users[u] # NoItem
                        /\ stored.digest # <<stored.salt, body.currentPassword>>)
                        => req'[p].out = "401"
                   /\ req'[p].out \in {"400", "401", "404"}
                        => req'[p].pc = "done" /\ UNCHANGED Users]_vars

\* alice's password change was answered 200 and her stored hash is one of
\* the new password.
C18_Witness ==
    \E p \in Procs :
        /\ req[p].op = "PUT /api/users/password"
        /\ req[p].pc = "done"
        /\ req[p].out = "200"
        /\ req[p].item = [currentPassword |-> "secret1", newPassword |-> "secret9"]
        /\ Users[1] # NoItem
        /\ Users[1].Password_Hash.digest[2] = "secret9"

\* A password change with a wrong current password was answered 401.
C18_WrongCurrentPassword ==
    \E p \in Procs :
        /\ req[p].op = "PUT /api/users/password"
        /\ req[p].out = "401"
        /\ req[p].nextCalls = 1
        /\ req[p].item.currentPassword = "secret9"
        /\ Users[1] # NoItem
        /\ Users[1].Password_Hash.digest[2] = "secret1"

\* A password change of a user whose row is gone was answered 404.
C18_UnknownUser ==
    \E p \in Procs :
        /\ req[p].op = "PUT /api/users/password"
        /\ req[p].out = "404"

\* ------------------------------------------------------------ audit claim
\* The mutating handlers that the audit trail covers.
MutatingOps ==
    {"POST /api/auth/register", "POST /api/auth/login", "POST /api/meals",
     "POST /api/workouts", "POST /api/goals", "PUT /api/goals/:goalId/progress",
     "PUT /api/goals/:goalId/status", "PUT /api/users/profile",
     "PUT /api/users/password"}

ByIdOps ==
    {"GET /api/meals/:mealId", "GET /api/workouts/:workoutId", "GET /api/goals/:goalId",
     "PUT /api/goals/:goalId/progress", "PUT /api/goals/:goalId/status"}

\* The table that a by-id request addresses.
TableOf(op) ==
    IF op = "GET /api/meals/:mealId" THEN Meals
    ELSE IF op = "GET /api/workouts/:workoutId" THEN Workouts
    ELSE Goals

\* The 404 body of a by-id request.
NotFoundOf(op) ==
    IF op = "GET /api/meals/:mealId" THEN MealNotFound
    ELSE IF op = "GET /api/workouts/:workoutId" THEN WorkoutNotFound
    ELSE GoalNotFound

\* The id of the request names a row.
IdExists(p) == req[p].id \in 1..Len(TableOf(req[p].op))

\* The id of the request names a row of the requesting user.
IdOwned(p) == IdExists(p) /\ TableOf(req[p].op)[req[p].id].UserID = req[p].user

\* The request's body fails the handler's validation.
BodyInvalid(p) ==
    \/ req[p].op = "PUT /api/goals/:goalId/progress"
        /\ (req[p].value = NULL \/ req[p].value < 0)
    \/ req[p].op = "PUT /api/goals/:goalId/status"
        /\ req[p].status \notin ValidStatuses

\* C20: the answer to a by-id request for an id that is not a row of the
\* requesting user is decided by the request alone, whether the id names a
\* row of another user or no row: 400 for a body that fails validation,
\* 500 when the read fails, and otherwise 404 with the handler's one
\* not-found body; and the request changes nothing in the store.
C20_ForeignIdAnsweredAsMissingId ==
    /\ [](\A p \in Procs :
            (req[p].pc = "done" /\ req[p].op \in ByIdOps /\ ~IdOwned(p))
            => IF BodyInvalid(p) THEN req[p].out = "400" /\ req[p].body = NoItem
               ELSE IF req[p].err = "select" THEN req[p].out = "500" /\ req[p].body = NoItem
               ELSE req[p].out = "404" /\ req[p].body = NotFoundOf(req[p].op))
    /\ [][\A p \in Procs :
            (req[p].pc = "idle" /\ req'[p].op \in ByIdOps
             /\ ~(/\ req'[p].id \in 1..Len(TableOf(req'[p].op))
                  /\ TableOf(req'[p].op)[req'[p].id].UserID = req'[p].user))
            => /\ req'[p].pc = "done"
               /\ UNCHANGED <<Meals, Meal_Items, Workouts, Workout_Exercises, Goals,
                              Progress_Tracking, Activity_Logs, account>>]_vars

\* alice's requests for bob's goal were answered 404 with the same body as
\* her request for a goal that does not exist (C20_MissingId): here the
\* progress update of goal 1.
C20_Witness ==
    \E p \in Procs :
        /\ req[p].op = "PUT /api/goals/:goalId/progress"
        /\ req[p].pc = "done"
        /\ req[p].user = 1
        /\ req[p].id = 1
        /\ Goals[1].UserID = 2
        /\ req[p].out = "404"
        /\ req[p].body = GoalNotFound

\* alice's progress update of goal 2, which does not exist, was answered 404.
C20_MissingId ==
    \E p \in Procs :
        /\ req[p].op = "PUT /api/goals/:goalId/progress"
        /\ req[p].pc = "done"
        /\ req[p].user = 1
        /\ req[p].id = 2
        /\ Len(Goals) = 1
        /\ req[p].out = "404"
        /\ req[p].body = GoalNotFound

\* Every by-id endpoint has answered alice 404 for bob's row.
C20_ForeignMeal ==
    \E p \in Procs :
        /\ req[p].op = "GET /api/meals/:mealId" /\ req[p].user = 1 /\ req[p].id = 1
        /\ req[p].out = "404" /\ req[p].body = MealNotFound

C20_ForeignWorkout ==
    \E p \in Procs :
        /\ req[p].op = "GET /api/workouts/:workoutId" /\ req[p].user = 1 /\ req[p].id = 1
        /\ req[p].out = "404" /\ req[p].body = WorkoutNotFound

C20_ForeignGoal ==
    \E p \in Procs :
        /\ req[p].op = "GET /api/goals/:goalId" /\ req[p].user = 1 /\ req[p].id = 1
        /\ req[p].out = "404" /\ req[p].body = GoalNotFound

C20_ForeignStatus ==
    \E p \in Procs :
        /\ req[p].op = "PUT /api/goals/:goalId/status" /\ req[p].user = 1 /\ req[p].id = 1
        /\ req[p].out = "404" /\ req[p].body = GoalNotFound

\* bob, the owner, was answered 200 with the goal.
C20_OwnerAnswered ==
    \E p \in Procs :
        /\ req[p].op = "GET /api/goals/:goalId" /\ req[p].user = 2 /\ req[p].id = 1
        /\ req[p].out = "200" /\ req[p].body.data.goal.GoalID = 1

\* ---------------------------------------------------- store-module claims
\* The connections that the query call of p has checked out itself.
BorrowedByQuery(p) == {c \in db.clients : c.by = "query" /\ c.p = p}

C28_OnePoolPerProcess ==
    /\ [](/\ db.created <= 1
          /\ db.pool = db.created
          /\ \A c \in db.clients : c.pool = db.pool
          /\ \A p \in Procs : req[p].pc = "q_query" => req[p].id = db.pool)
    /\ [][db.pool # 0 => db'.pool = db.pool]_vars

\* new Pool threw at module load; a query found the pool unset and
\* constructed it, and the query of the other task uses that pool.
C28_Witness ==
    \E p, q \in Procs :
        /\ db.load = "failed"
        /\ db.created = 1
        /\ req[p].pc = "qi_test"
        /\ req[q].pc = "q_query"
        /\ req[q].id = db.pool

\* C29: once initializeDatabase has returned or thrown, at module load or
\* inside a query, the connection it borrowed for the test is checked out
\* no more.
C29_InitializationReleasesItsConnection ==
    /\ db.load \in {"done", "failed"}
        => ~(\E c \in db.clients : c.by = "init" /\ c.p = 0)
    /\ \A p \in Procs :
        req[p].pc \notin {"qi_connect", "qi_test"}
            => ~(\E c \in db.clients : c.by = "init" /\ c.p = p)

\* The test statement of the initialization at module load was rejected:
\* the initialization has thrown and its connection is still checked out.
C29_LeakedConnection ==
    /\ db.load = "failed"
    /\ db.clients = {[by |-> "init", p |-> 0, pool |-> 1]}
    /\ \A p \in Procs : req[p].pc = "idle"

\* ------------------------------------------------- goal-transition claims
\* C22: the step in which a progress update takes effect changes the
\* goal's status only from Active to Completed; a Paused, Cancelled or
\* Completed goal keeps its status.
C22_ProgressOnlyCompletesActiveGoals ==
    [][\A p \in Procs : \A g \in 1..Len(Goals) :
          (ProgressApplied(p, g) /\ Goals'[g].Status # Goals[g].Status)
          => Goals[g].Status = "Active" /\ Goals'[g].Status = "Completed"]_vars

\* A progress update on the fallback path has answered 200 for a goal that
\* was Paused when the ownership check read it: the goal is Active.
C22_PausedGoalReactivated ==
    \E p \in Procs :
        /\ req[p].op = "PUT /api/goals/:goalId/progress"
        /\ req[p].pc = "done"
        /\ req[p].out = "200"
        /\ req[p].err = "procedure"
        /\ req[p].row.Status = "Paused"
        /\ Goals[req[p].id].Status = "Active"

\* C26: a goal whose status is Completed has a completed date.
C26_CompletedGoalHasCompletedDate ==
    \A g \in 1..Len(Goals) :
        Goals[g].Status = "Completed" => Goals[g].Completed_Date # NULL

\* With no request running, an Endurance goal is Completed by its one
\* progress update and has no completed date.
C26_CompletedGoalWithoutDate ==
    /\ \A p \in Procs : req[p].pc = "idle"
    /\ Goals[1].Goal_Type = "Endurance"
    /\ Len(Progress_Tracking) = 1
    /\ Progress_Tracking[1].Value >= Goals[1].Target_Value
    /\ Goals[1].Status = "Completed"
    /\ Goals[1].Completed_Date = NULL

\* -------------------------------------------------- exercise-order claim
\* The Exercise_Order values of the exercises of workout w.
OrdersOf(w) == {Workout_Exercises[i].Exercise_Order : i \in ExercisesOf(w)}

\* C23: with one request at a time, whenever no request is under way, the
\* Exercise_Order values of each workout's exercises are pairwise distinct
\* and are the numbers 1..n, n being the number of its exercises.
C23_ExerciseOrdersContiguous ==
    (\A p \in Procs : req[p].pc \in {"idle", "done"})
    => \A w \in 1..Len(Workouts) : OrdersOf(w) = 1..Cardinality(ExercisesOf(w))

\* POST /api/workouts has answered 201 for a list whose first entry has no
\* exerciseId: the workout's one exercise has Exercise_Order 2.
C23_OrderStartsAtTwo ==
    \E p \in Procs :
        /\ req[p].op = "POST /api/workouts"
        /\ req[p].pc = "done"
        /\ req[p].out = "201"
        /\ Cardinality(ExercisesOf(req[p].id)) = 1
        /\ OrdersOf(req[p].id) = {2}

\* --------------------------------------------- sequential goal-limit claim
\* C24: with one goal request at a time, no user ever has more than 10
\* Active goals.
C24_AtMostTenActiveGoals ==
    \A u \in UserIds : ActiveGoalsOf(u) <= ActiveGoalLimit

\* alice created an eleventh goal while one of her ten was Paused, and the
\* Paused goal was then made Active again: eleven Active goals.
C24_ElevenActiveGoals ==
    /\ \A p \in Procs : req[p].pc = "idle"
    /\ Len(Goals) = 11
    /\ \A g \in 1..11 : Goals[g].UserID = 1
    /\ ActiveGoalsOf(1) = 11

\* --------------------------------------------- concurrent goal-limit claim
\* C25: with goal creations running concurrently, the Active goals that a
\* user has got through goal creation never number more than 10.
C25_ConcurrentCreationsKeepLimit ==
    \A u \in UserIds :
        LET IsActiveGoalOf(g) == g.UserID = u /\ g.Status = GoalDefaultStatus
        IN  Len(SelectSeq(Goals, IsActiveGoalOf)) <= ActiveGoalLimit

\* Two creations of alice, each counted nine Active goals before either
\* inserted, have both answered 201: goals 10 and 11, eleven Active.
C25_BothCreated ==
    /\ \A p \in Procs :
        /\ req[p].op = "POST /api/goals" /\ req[p].pc = "done" /\ req[p].out = "201"
        /\ req[p].user = 1 /\ req[p].mark = 9
    /\ {req[p].id : p \in Procs} = {10, 11}
    /\ ActiveGoalsOf(1) = 11

\* --------------------------------------------------------- ownership claim
\* Request p takes the step.
Acts(p) == req'[p] # req[p]

\* Row i of the table is new or changed in the step.
Touched(old, new, i) == i > Len(old) \/ new[i] # old[i]

C27_OwnerReadsWorkout ==
    \E p \in Procs :
        /\ req[p].op = "GET /api/workouts/:workoutId"
        /\ req[p].out = "200"
        /\ req[p].user = 2
        /\ req[p].body.data.workout.workout.UserID = 2

\* --------------------------------------------------------- rejection claim
\* The domain tables, the account tables and the audit log.
Store ==
    <<Meals, Meal_Items, Workouts, Workout_Exercises, Goals, Progress_Tracking,
      Activity_Logs, Users, User_Profiles, User_Preferences>>

Rejections == {"400", "404", "409"}

\* The positions from which a handler is entered: a fresh request, or one
\* that the access gate has passed on.
EntryPcs == {"idle", "next"}

C30_RejectedValidation ==
    \E p \in Procs :
        /\ req[p].op = "POST /api/auth/register"
        /\ req[p].out = "400"
        /\ Len(Users) > 1

====
